---------------------------- MODULE Spec2Model ----------------------------
(***************************************************************************)
(* A model of the stem-experiments demos.  Every demo is a standalone      *)
(* script: a state record mutated by DOM event handlers and by a per-frame *)
(* update.  Each demo has its own specification (SpecPendulum, SpecGraph,  *)
(* SpecBalance, ...) over its own record; the other demos' records stay at *)
(* their initial value in it.                                              *)
(*                                                                         *)
(* The pendulum's real numbers are fixed point: angles in units of        *)
(* 1/AngleScale rad, time in milliseconds.  Quotients are rounded to the   *)
(* nearest unit (RDiv), and a value the script obtains by a division is    *)
(* kept as a pair <<num, den>> where the claim is about the division       *)
(* itself.  The balance demo's numbers are IEEE 754 doubles.               *)
(***************************************************************************)
EXTENDS Integers, Sequences, FiniteSets, TLC

VARIABLES
    ev,         \* the handler / callback that ran last
    pendulum,   \* simple-pendulum/script.js: state
    frameMs,    \* simple-pendulum/script.js: refresh period of the display, ms
    graph,      \* simple-pendulum/script.js: what updateGraph last drew
    balance,    \* balance demo: state
    magnet,     \* magnet demos: magnetGroup position and rotation, strength slider
    fieldViz,   \* magnet demos: the field at the points of the shown visualization
    lab,        \* hydrogen lab: state, buttons, status indicators, timers
    electro,    \* electrostatics demo: state, scene graph, pending executions
    wave        \* wave demo: state.time, state.isPaused, presses of Pause

vars == <<ev, pendulum, frameMs, graph, balance, magnet, fieldViz, lab, electro, wave>>

----------------------------------------------------------------------------
(* Arithmetic helpers *)

Abs(x) == IF x < 0 THEN -x ELSE x

Max2(a, b) == IF a >= b THEN a ELSE b

Min2(a, b) == IF a <= b THEN a ELSE b

\* a / b rounded to the nearest integer (half away from zero), b > 0
RDiv(a, b) == IF a >= 0 THEN (2 * a + b) \div (2 * b)
                        ELSE -((2 * (-a) + b) \div (2 * b))

RECURSIVE SumSeq(_)
SumSeq(s) == IF s = <<>> THEN 0 ELSE Head(s) + SumSeq(Tail(s))

SeqMin(s) == CHOOSE v \in {s[i] : i \in DOMAIN s} :
                \A w \in {s[i] : i \in DOMAIN s} : v <= w

SeqMax(s) == CHOOSE v \in {s[i] : i \in DOMAIN s} :
                \A w \in {s[i] : i \in DOMAIN s} : v >= w

\* x || 1 : JavaScript's "or" on numbers replaces 0 by the right operand
OrOne(x) == IF x = 0 THEN 1 ELSE x

----------------------------------------------------------------------------
(* Simple pendulum: constants and bounds *)

\* angles are counted in units of 1/AngleScale rad
AngleScale == 100000

\* Math.PI, in units of 1/AngleScale
PiScaled == 314159

\* 4 * Math.PI * Math.PI, times 10000
FourPiSq == 394784

\* G = 9.81 m/s^2, times 100
G100 == 981

\* damping = 0.001, times 1000
DampingMilli == 1

\* the cap of deltaTime: Math.min(currentTime - lastTime, 0.02), in ms
DeltaCapMs == 20

\* values of the length slider (cm) and of the angle slider (degrees)
LengthValues == {10, 50}

AngleValues == {5, 10}

\* refresh periods of the display, ms
RefreshValues == {16, 25}

\* frames are simulated while elapsedTime is below this many ms
MaxElapsedMs == 1090

\* slider input during a run is taken within this many ms of Start
MaxRunInputMs == 0

\* Record is pressed while fewer points than this are stored
MaxPoints == 2

----------------------------------------------------------------------------
(* Simple pendulum: physics *)

\* (deg * Math.PI) / 180
DegToRad(deg) == RDiv(deg * PiScaled, 180)

\* Math.sin(a) for |a| < 0.4 rad: a - a^3/6 + a^5/120
Sin(a) ==
    LET a2 == RDiv(a * a, AngleScale)
        a3 == RDiv(a2 * a, AngleScale)
        a5 == RDiv(RDiv(a3 * a2, AngleScale), 1)
    IN  a - RDiv(a3, 6) + RDiv(a5, 120)

\* updatePendulumPhysics(deltaTime), deltaTime in ms
PhysicsNoGuard(s, dt) ==
    LET acc == -RDiv(G100 * Sin(s.angle), s.length)
               - RDiv(DampingMilli * s.angularVelocity, 1000)
        vel == s.angularVelocity + RDiv(acc * dt, 1000)
        ang == s.angle + RDiv(vel * dt, 1000)
        el  == s.elapsedTime + dt
        crossed == ang >= 0 /\ s.lastAngle < 0
    IN  [s EXCEPT !.angularAcceleration = acc,
                  !.angularVelocity = vel,
                  !.angle = ang,
                  !.elapsedTime = el,
                  !.lastCrossTime = IF crossed /\ s.lastCrossTime = 0
                                    THEN el ELSE @,
                  !.oscillations = IF crossed /\ s.lastCrossTime # 0
                                   THEN @ + 1 ELSE @,
                  !.lastAngle = ang]

updatePendulumPhysicsUnguarded(s, dt) == PhysicsNoGuard(s, dt)

updatePendulumPhysics(s, dt) ==
    IF ~s.isRunning THEN s ELSE PhysicsNoGuard(s, dt)

----------------------------------------------------------------------------
(* Simple pendulum: graph and regression *)

\* the regression with the intercept's division by n left out
calculateLinearRegressionNoN(x, y) ==
    LET n == Len(x)
        sumX == SumSeq(x)
        sumY == SumSeq(y)
        sumXY == SumSeq([i \in DOMAIN x |-> x[i] * y[i]])
        sumXX == SumSeq([i \in DOMAIN x |-> x[i] * x[i]])
        num == n * sumXY - sumX * sumY
        den == n * sumXX - sumX * sumX
    IN  [slope |-> <<num, den>>,
         intercept |-> <<sumY * den - num * sumX, den>>]

\* calculateLinearRegression(x, y): slope and intercept as quotients
\* <<numerator, denominator>>; a zero denominator is a division by zero
\* (NaN or an infinity in the script)
calculateLinearRegression(x, y) ==
    LET n == Len(x)
        sumX == SumSeq(x)
        sumY == SumSeq(y)
        sumXY == SumSeq([i \in DOMAIN x |-> x[i] * y[i]])
        sumXX == SumSeq([i \in DOMAIN x |-> x[i] * x[i]])
        num == n * sumXY - sumX * sumY
        den == n * sumXX - sumX * sumX
    IN  [slope |-> <<num, den>>,
         intercept |-> <<sumY * den - num * sumX, den * n>>]

NoGraph == [drawn |-> FALSE, xDiv |-> 0, yDiv |-> 0,
            slope |-> <<0, 1>>, intercept |-> <<0, 1>>, g |-> <<0, 1>>,
            panel |-> FALSE]

\* updateGraph(): what it draws from the data points and the result panel
\* it leaves; with fewer than two points it returns before touching the panel
updateGraph(points, old) ==
    IF Len(points) < 2
    THEN [old EXCEPT !.drawn = FALSE]
    ELSE LET lengths == [i \in DOMAIN points |-> points[i].length]
             tSquared == [i \in DOMAIN points |-> points[i].periodSquared]
             reg == calculateLinearRegression(lengths, tSquared)
         IN  [drawn |-> TRUE,
              xDiv |-> OrOne(SeqMax(lengths) - SeqMin(lengths)),
              yDiv |-> OrOne(SeqMax(tSquared) - SeqMin(tSquared)),
              slope |-> reg.slope,
              intercept |-> reg.intercept,
              \* g = (4 * pi^2) / slope, 4 * pi^2 left as a factor
              g |-> <<reg.slope[2], reg.slope[1]>>,
              panel |-> TRUE]

----------------------------------------------------------------------------
(* Simple pendulum: state and handlers *)

PendulumState0 ==
    [length |-> 50, initialAngle |-> 5, angle |-> 0,
     angularVelocity |-> 0, angularAcceleration |-> 0, isRunning |-> FALSE,
     lastCrossTime |-> 0, oscillations |-> 0, elapsedTime |-> 0,
     lastAngle |-> 0, dataPoints |-> <<>>]

\* init(): sets the initial angle and draws the (empty) graph
PendulumInit ==
    /\ pendulum = [PendulumState0 EXCEPT !.angle = DegToRad(5),
                                         !.lastAngle = DegToRad(5)]
    /\ frameMs \in RefreshValues
    /\ graph = NoGraph

InputAllowed == pendulum.isRunning => pendulum.elapsedTime <= MaxRunInputMs

lengthRangeInput(v) ==
    /\ InputAllowed
    /\ pendulum' = IF ~pendulum.isRunning
                   THEN [pendulum EXCEPT !.length = v,
                                         !.angle = DegToRad(pendulum.initialAngle),
                                         !.angularVelocity = 0]
                   ELSE [pendulum EXCEPT !.length = v]
    /\ ev' = "lengthRange"
    /\ UNCHANGED <<balance, magnet, fieldViz, lab, electro, wave>>
    /\ UNCHANGED <<frameMs, graph>>

angleRangeInput(v) ==
    /\ InputAllowed
    /\ pendulum' = IF ~pendulum.isRunning
                   THEN [pendulum EXCEPT !.initialAngle = v,
                                         !.angle = DegToRad(v),
                                         !.angularVelocity = 0]
                   ELSE [pendulum EXCEPT !.initialAngle = v]
    /\ ev' = "angleRange"
    /\ UNCHANGED <<balance, magnet, fieldViz, lab, electro, wave>>
    /\ UNCHANGED <<frameMs, graph>>

StartNoGuard(s) ==
    [s EXCEPT !.isRunning = TRUE,
              !.angle = DegToRad(s.initialAngle),
              !.angularVelocity = 0,
              !.lastCrossTime = 0,
              !.oscillations = 0,
              !.elapsedTime = 0,
              !.lastAngle = DegToRad(s.initialAngle)]

startBtnStateUnguarded(s) == StartNoGuard(s)

startBtnState(s) == IF ~s.isRunning THEN StartNoGuard(s) ELSE s

startBtnClick ==
    /\ pendulum' = startBtnState(pendulum)
    /\ ev' = "startBtn"
    /\ UNCHANGED <<balance, magnet, fieldViz, lab, electro, wave>>
    /\ UNCHANGED <<frameMs, graph>>

stopBtnClick ==
    /\ pendulum' = [pendulum EXCEPT !.isRunning = FALSE]
    /\ ev' = "stopBtn"
    /\ UNCHANGED <<balance, magnet, fieldViz, lab, electro, wave>>
    /\ UNCHANGED <<frameMs, graph>>

resetBtnClick ==
    /\ pendulum' = [pendulum EXCEPT !.isRunning = FALSE,
                                    !.angle = DegToRad(pendulum.initialAngle),
                                    !.angularVelocity = 0,
                                    !.oscillations = 0,
                                    !.elapsedTime = 0,
                                    !.lastCrossTime = 0,
                                    !.lastAngle = DegToRad(pendulum.initialAngle)]
    /\ ev' = "resetBtn"
    /\ UNCHANGED <<balance, magnet, fieldViz, lab, electro, wave>>
    /\ UNCHANGED <<frameMs, graph>>

\* the period the demo measures: elapsedTime / oscillations, in ms
MeasuredPeriod(s) == RDiv(s.elapsedTime, s.oscillations)

\* period * period, in units of 0.0001 s^2 (the table's resolution)
PeriodSquared(period) == RDiv(period * period, 100)

recordBtnClick ==
    /\ Len(pendulum.dataPoints) < MaxPoints
    /\ IF pendulum.oscillations >= 1 /\ pendulum.elapsedTime > 0
       THEN LET period == MeasuredPeriod(pendulum)
                pts == Append(pendulum.dataPoints,
                              [length |-> pendulum.length,
                               period |-> period,
                               periodSquared |-> PeriodSquared(period)])
            IN  /\ pendulum' = [pendulum EXCEPT !.dataPoints = pts]
                /\ graph' = updateGraph(pts, graph)
       ELSE UNCHANGED <<pendulum, graph>>
    /\ ev' = "recordBtn"
    /\ UNCHANGED <<balance, magnet, fieldViz, lab, electro, wave>>
    /\ UNCHANGED frameMs

RemoveAt(s, i) == [j \in 1..(Len(s) - 1) |-> IF j < i THEN s[j] ELSE s[j + 1]]

\* the delete button of row i of the data table
deleteBtnClick(i) ==
    /\ i \in DOMAIN pendulum.dataPoints
    /\ LET pts == RemoveAt(pendulum.dataPoints, i)
       IN  /\ pendulum' = [pendulum EXCEPT !.dataPoints = pts]
           /\ graph' = updateGraph(pts, graph)
    /\ ev' = "deleteBtn"
    /\ UNCHANGED <<balance, magnet, fieldViz, lab, electro, wave>>
    /\ UNCHANGED frameMs

clearDataBtnClick ==
    /\ pendulum' = [pendulum EXCEPT !.dataPoints = <<>>]
    /\ graph' = [updateGraph(<<>>, graph) EXCEPT !.panel = FALSE]
    /\ ev' = "clearDataBtn"
    /\ UNCHANGED <<balance, magnet, fieldViz, lab, electro, wave>>
    /\ UNCHANGED frameMs

\* animate(): one animation frame
pendulumAnimate ==
    /\ pendulum.elapsedTime < MaxElapsedMs
    /\ pendulum' = updatePendulumPhysics(pendulum, Min2(frameMs, DeltaCapMs))
    /\ ev' = "animate"
    /\ UNCHANGED <<balance, magnet, fieldViz, lab, electro, wave>>
    /\ UNCHANGED <<frameMs, graph>>

\* window resize: redraws the graph
windowResize ==
    /\ graph' = updateGraph(pendulum.dataPoints, graph)
    /\ ev' = "resize"
    /\ UNCHANGED <<balance, magnet, fieldViz, lab, electro, wave>>
    /\ UNCHANGED <<pendulum, frameMs>>

----------------------------------------------------------------------------
(* IEEE 754 double arithmetic, as the numbers of the balance demo need it. *)
(* A natural number is a sequence of limbs, least significant first, in    *)
(* base 2^14; a double is sign * m * 2^e with m of exactly 53 bits, or     *)
(* zero.  Results are rounded to the nearest double, ties to even.         *)

\* the element of a set of one element: Only({e(v) : v \in {d}}) is e(d), with
\* d worked out once
Only(S) == CHOOSE v \in S : TRUE

Limb == 16384

LimbBits == 14

MantissaBits == 53

RECURSIVE Pow2(_)
Pow2(k) == IF k = 0 THEN 1 ELSE 2 * Pow2(k - 1)

RECURSIVE BigNorm(_)
BigNorm(a) ==
    IF a # <<>> /\ a[Len(a)] = 0 THEN BigNorm(SubSeq(a, 1, Len(a) - 1)) ELSE a

RECURSIVE BigFromInt(_)
BigFromInt(n) == IF n = 0 THEN <<>> ELSE <<n % Limb>> \o BigFromInt(n \div Limb)

RECURSIVE BigAddC(_, _, _)
BigAddC(a, b, c) ==
    IF a = <<>> /\ b = <<>>
    THEN IF c = 0 THEN <<>> ELSE <<c>>
    ELSE LET x == IF a = <<>> THEN 0 ELSE Head(a)
             y == IF b = <<>> THEN 0 ELSE Head(b)
             t == x + y + c
         IN  <<t % Limb>> \o BigAddC(IF a = <<>> THEN a ELSE Tail(a),
                                     IF b = <<>> THEN b ELSE Tail(b),
                                     t \div Limb)

BigAdd(a, b) == BigAddC(a, b, 0)

\* a - b - c for a >= b + c
RECURSIVE BigSubC(_, _, _)
BigSubC(a, b, c) ==
    IF a = <<>>
    THEN <<>>
    ELSE LET y == IF b = <<>> THEN 0 ELSE Head(b)
             t == Head(a) - y - c
         IN  <<(t + Limb) % Limb>> \o BigSubC(Tail(a),
                                              IF b = <<>> THEN b ELSE Tail(b),
                                              IF t < 0 THEN 1 ELSE 0)

BigSub(a, b) == BigNorm(BigSubC(a, b, 0))

\* -1, 0 or 1 as a < b, a = b or a > b (both without leading zero limbs)
RECURSIVE BigCmp(_, _)
BigCmp(a, b) ==
    IF Len(a) # Len(b) THEN (IF Len(a) < Len(b) THEN -1 ELSE 1)
    ELSE IF a = <<>> THEN 0
    ELSE IF a[Len(a)] # b[Len(b)] THEN (IF a[Len(a)] < b[Len(b)] THEN -1 ELSE 1)
    ELSE BigCmp(SubSeq(a, 1, Len(a) - 1), SubSeq(b, 1, Len(b) - 1))

\* a * k for 0 <= k < Limb
RECURSIVE BigMulSmallC(_, _, _)
BigMulSmallC(a, k, c) ==
    IF a = <<>>
    THEN IF c = 0 THEN <<>> ELSE <<c>>
    ELSE LET t == Head(a) * k + c
         IN  <<t % Limb>> \o BigMulSmallC(Tail(a), k, t \div Limb)

BigMulSmall(a, k) == BigNorm(BigMulSmallC(a, k, 0))

RECURSIVE BigMul(_, _)
BigMul(a, b) ==
    IF a = <<>> \/ b = <<>>
    THEN <<>>
    ELSE Only({BigAdd(BigMulSmall(a, Head(b)),
                      IF rest = <<>> THEN <<>> ELSE <<0>> \o rest)
               : rest \in {BigMul(a, Tail(b))}})

\* quotient and remainder of a by d, 0 < d < Limb
RECURSIVE BigDivSmall(_, _)
BigDivSmall(a, d) ==
    IF a = <<>>
    THEN [q |-> <<>>, r |-> 0]
    ELSE Only({[q |-> BigNorm(<<(hi.r * Limb + Head(a)) \div d>> \o hi.q),
                r |-> (hi.r * Limb + Head(a)) % d]
               : hi \in {BigDivSmall(Tail(a), d)}})

Zeros(n) == [i \in 1..n |-> 0]

\* a * 2^k
BigShl(a, k) ==
    IF a = <<>> THEN a
    ELSE Zeros(k \div LimbBits) \o BigMulSmall(a, Pow2(k % LimbBits))

\* floor(a / 2^k)
BigShr(a, k) ==
    IF k \div LimbBits >= Len(a) THEN <<>>
    ELSE BigDivSmall(SubSeq(a, k \div LimbBits + 1, Len(a)), Pow2(k % LimbBits)).q

RECURSIVE IntBitLen(_)
IntBitLen(n) == IF n = 0 THEN 0 ELSE 1 + IntBitLen(n \div 2)

BigBitLen(a) ==
    IF a = <<>> THEN 0 ELSE LimbBits * (Len(a) - 1) + IntBitLen(a[Len(a)])

BigOdd(a) == a # <<>> /\ a[1] % 2 = 1

FZero == [s |-> 1, m |-> <<>>, e |-> 0]

\* the double nearest to s * (n + f) * 2^e, where 0 <= f < 1 and sticky
\* tells whether f > 0 (n has 54 bits or more then)
FRound(s, n, e, sticky) ==
    IF n = <<>> THEN FZero
    ELSE Only({
        IF k <= 0 THEN [s |-> s, m |-> BigShl(n, -k), e |-> e + k]
        ELSE Only({
            Only({
                Only({
                    IF BigBitLen(q1) > MantissaBits
                    THEN [s |-> s, m |-> BigShr(q1, 1), e |-> e + k + 1]
                    ELSE [s |-> s, m |-> q1, e |-> e + k]
                    \* q1: the quotient rounded, half to even
                    : q1 \in {IF c > 0 \/ (c = 0 /\ (sticky \/ BigOdd(q)))
                              THEN BigAdd(q, <<1>>) ELSE q}})
                \* c: the remainder against half a unit of the quotient
                : c \in {BigCmp(BigSub(n, BigShl(q, k)), BigShl(<<1>>, k - 1))}})
            \* q: the leading 53 bits of n
            : q \in {BigShr(n, k)}})
        \* k: the bits of n beyond 53
        : k \in {BigBitLen(n) - MantissaBits}})

\* a / b for integers a >= 0 and 0 < b < Limb
FDivInt(a, b) ==
    Only({FRound(1, d.q, -(5 * LimbBits), d.r # 0)
          : d \in {BigDivSmall(BigShl(BigFromInt(a), 5 * LimbBits), b)}})

\* x * y
FMul(x, y) ==
    IF x.m = <<>> \/ y.m = <<>> THEN FZero
    ELSE Only({FRound(x.s * y.s, p, x.e + y.e, FALSE) : p \in {BigMul(x.m, y.m)}})

FNeg(x) == IF x.m = <<>> THEN x ELSE [x EXCEPT !.s = -@]

\* x + y
FAdd(x, y) ==
    IF x.m = <<>> THEN y
    ELSE IF y.m = <<>> THEN x
    ELSE Only({
        Only({
            Only({FRound(r.s, r.n, e, FALSE)
                  \* r: sign and magnitude of the exact sum
                  : r \in {IF x.s = y.s THEN [s |-> x.s, n |-> BigAdd(a, b)]
                           ELSE IF BigCmp(a, b) >= 0 THEN [s |-> x.s, n |-> BigSub(a, b)]
                           ELSE [s |-> y.s, n |-> BigSub(b, a)]}})
            \* a, b: the significands at the common exponent e
            : a \in {BigShl(x.m, x.e - e)}, b \in {BigShl(y.m, y.e - e)}})
        : e \in {Min2(x.e, y.e)}})

\* x - y
FSub(x, y) == FAdd(x, FNeg(y))

\* x < y
FLess(x, y) == \E d \in {FSub(x, y)} : d.m # <<>> /\ d.s = -1

\* x / 2^k and x * 2^k, which are exact
FDivPow2(x, k) == IF x.m = <<>> THEN x ELSE [x EXCEPT !.e = @ - k]

\* |x| < 2^k
FBelowPow2(x, k) == x.m = <<>> \/ x.e + MantissaBits <= k

----------------------------------------------------------------------------
(* Balance demo (part_002, first script).  Masses are in grams, distances  *)
(* in cm; moments and angles are the doubles the code computes.            *)

\* GRAVITY = 9.81
GRAVITY == [s |-> 1, m |-> <<1311, 1966, 11141, 1255>>, e |-> -49]

\* MAX_TILT_ANGLE = Math.PI / 6
MAX_TILT_ANGLE == [s |-> 1, m |-> <<13157, 8373, 5411, 1072>>, e |-> -53]

\* maxMoment = 0.5 = 2^-1
maxMomentLog2 == -1

\* the factor 0.1 of the smooth interpolation
SmoothFactor == [s |-> 1, m |-> <<6554, 9830, 6553, 1638>>, e |-> -56]

\* values of the mass sliders (g) and of the distance sliders (cm)
MassValues == {200, 300}

BalanceDistValues == {30, 45}

\* most animation frames of a run
MaxBalanceFrames == 2

\* most animation frames of a run in which the beam is left to settle
MaxBeamFrames == 360

\* most Auto-balance animations running at a time
MaxBalanceLoops == 2

\* duration of animateToBalance, ms
BalanceDuration == 800

\* the time between two animation frames while an Auto-balance animation
\* runs, ms: multiples of a quarter of the duration, for which the easing
\* is exact in doubles
BalanceFrameSteps == {200, 400}

\* toBalance: the running animateToBalance loops, each with its startD2,
\* its targetD2 and the time elapsed since its startTime
BalanceState0 ==
    [mass1 |-> 200, dist1 |-> 30, mass2 |-> 300, dist2 |-> 20,
     currentAngle |-> FZero, targetAngle |-> FZero, frames |-> 0,
     toBalance |-> <<>>]

calculateMoments(s) ==
    Only({[moment1 |-> FMul(F1, FDivInt(s.dist1, 100)),
           moment2 |-> FMul(F2, FDivInt(s.dist2, 100)),
           F1 |-> F1, F2 |-> F2]
          : F1 \in {FMul(FDivInt(s.mass1, 1000), GRAVITY)},
            F2 \in {FMul(FDivInt(s.mass2, 1000), GRAVITY)}})

\* Math.max(-MAX_TILT_ANGLE, Math.min(MAX_TILT_ANGLE, angle))
ClampTilt(angle) ==
    Only({IF FLess(FNeg(MAX_TILT_ANGLE), capped) THEN capped ELSE FNeg(MAX_TILT_ANGLE)
          \* capped: Math.min(MAX_TILT_ANGLE, angle)
          : capped \in {IF FLess(angle, MAX_TILT_ANGLE) THEN angle ELSE MAX_TILT_ANGLE}})

\* the tilt computed from the sum of the two moments
calculateTiltAngleOfSum(s) ==
    Only({ClampTilt(FMul(FDivPow2(FAdd(mo.moment2, mo.moment1), maxMomentLog2),
                         MAX_TILT_ANGLE))
          : mo \in {calculateMoments(s)}})

\* the tilt without the clamp to [-MAX_TILT_ANGLE, MAX_TILT_ANGLE]
calculateTiltAngleUnclamped(s) ==
    Only({FMul(FDivPow2(FSub(mo.moment2, mo.moment1), maxMomentLog2), MAX_TILT_ANGLE)
          : mo \in {calculateMoments(s)}})

\* (netMoment / maxMoment) * MAX_TILT_ANGLE, clamped
calculateTiltAngle(s) ==
    Only({ClampTilt(FMul(FDivPow2(FSub(mo.moment2, mo.moment1), maxMomentLog2),
                         MAX_TILT_ANGLE))
          : mo \in {calculateMoments(s)}})

\* state.targetAngle = calculateTiltAngle();
\* state.currentAngle += (state.targetAngle - state.currentAngle) * 0.1
updateBeamRotation(s) ==
    Only({[s EXCEPT !.targetAngle = target,
                    !.currentAngle =
                        FAdd(@, FMul(FSub(target, s.currentAngle), SmoothFactor))]
          : target \in {calculateTiltAngle(s)}})

\* beamGroup.rotation.z = state.currentAngle: a rotation about z by the
\* angle a takes the point (x, 0) of the beam to (x * cos a, x * sin a).
\* The sign of the height x * sin a of the beam end on the side of xSign
\* (1 right, -1 left) over the pivot, for an angle within MAX_TILT_ANGLE
BeamEndHeightSign(s, xSign) ==
    IF s.currentAngle.m = <<>> THEN 0 ELSE xSign * s.currentAngle.s

mass1RangeInput(v) ==
    /\ balance' = [balance EXCEPT !.mass1 = v]
    /\ ev' = "mass1Range"
    /\ UNCHANGED <<pendulum, frameMs, graph, magnet, fieldViz, lab, electro, wave>>

dist1RangeInput(v) ==
    /\ balance' = [balance EXCEPT !.dist1 = v]
    /\ ev' = "dist1Range"
    /\ UNCHANGED <<pendulum, frameMs, graph, magnet, fieldViz, lab, electro, wave>>

mass2RangeInput(v) ==
    /\ balance' = [balance EXCEPT !.mass2 = v]
    /\ ev' = "mass2Range"
    /\ UNCHANGED <<pendulum, frameMs, graph, magnet, fieldViz, lab, electro, wave>>

dist2RangeInput(v) ==
    /\ balance' = [balance EXCEPT !.dist2 = v]
    /\ ev' = "dist2Range"
    /\ UNCHANGED <<pendulum, frameMs, graph, magnet, fieldViz, lab, electro, wave>>

balanceResetBtnClick ==
    /\ balance' = [balance EXCEPT !.mass1 = 200, !.dist1 = 30,
                                  !.mass2 = 300, !.dist2 = 20]
    /\ ev' = "balanceResetBtn"
    /\ UNCHANGED <<pendulum, frameMs, graph, magnet, fieldViz, lab, electro, wave>>

\* animate(): one animation frame of the balance demo
balanceAnimate ==
    /\ balance.frames < MaxBalanceFrames
    /\ balance' = [updateBeamRotation(balance) EXCEPT !.frames = @ + 1]
    /\ ev' = "balanceAnimate"
    /\ UNCHANGED <<pendulum, frameMs, graph, magnet, fieldViz, lab, electro, wave>>

\* animate(): one animation frame of a run in which the beam settles
beamAnimate ==
    /\ balance.frames < MaxBeamFrames
    /\ balance' = [updateBeamRotation(balance) EXCEPT !.frames = @ + 1]
    /\ ev' = "balanceAnimate"
    /\ UNCHANGED <<pendulum, frameMs, graph, magnet, fieldViz, lab, electro, wave>>

\* Math.round(n / d) for d > 0
RoundDiv(n, d) == (2 * n + d) \div (2 * d)

\* Math.round(startD2 + (targetD2 - startD2) * easeOut) with
\* easeOut = 1 - (1 - progress)^3, progress = Math.min(elapsed / duration, 1)
\* a multiple q of a quarter
EasedD2(startD2, targetD2, elapsed) ==
    LET q == IF elapsed < BalanceDuration
             THEN (4 * elapsed) \div BalanceDuration ELSE 4
    IN  RoundDiv(64 * startD2 + (targetD2 - startD2) * (64 - (4 - q) * (4 - q) * (4 - q)), 64)

\* one call of animate() of animateToBalance
ToBalanceCall(s, loop) ==
    [s EXCEPT !.dist2 = EasedD2(loop.startD2, loop.targetD2, loop.elapsed),
              !.toBalance = IF loop.elapsed < BalanceDuration
                            THEN Append(@, loop) ELSE @]

\* Math.max(5, Math.min(45, Math.round((mass1 * dist1) / mass2)))
ClampedD2(s) ==
    IF RoundDiv(s.mass1 * s.dist1, s.mass2) > 45
    THEN 45
    ELSE IF RoundDiv(s.mass1 * s.dist1, s.mass2) < 5
         THEN 5
         ELSE RoundDiv(s.mass1 * s.dist1, s.mass2)

\* the text updateUI() gives balanceStatus: the tolerance is 0.001 N m
balanceStatus(s) ==
    Only({IF FLess(IF diff.m = <<>> THEN diff ELSE [diff EXCEPT !.s = 1],
                   FDivInt(1, 1000))
          THEN "Balanced"
          ELSE IF FLess(mo.moment2, mo.moment1) THEN "Tilting Left" ELSE "Tilting Right"
          : mo \in {calculateMoments(s)},
            diff \in {FSub(calculateMoments(s).moment1, calculateMoments(s).moment2)}})

\* the click handler of Auto-balance: animateToBalance(clampedD2), whose
\* first call of animate() is made at once
balanceBtnClick ==
    /\ Len(balance.toBalance) < MaxBalanceLoops
    /\ \E clampedD2 \in {ClampedD2(balance)} :
          balance' = ToBalanceCall(balance, [startD2 |-> balance.dist2,
                                             targetD2 |-> clampedD2,
                                             elapsed |-> 0])
    /\ ev' = "balanceBtn"
    /\ UNCHANGED <<pendulum, frameMs, graph, magnet, fieldViz, lab, electro, wave>>

\* the callbacks of the animateToBalance loops in one animation frame, in
\* the order of their requests, dt after the frame before
RECURSIVE RunToBalance(_, _, _)
RunToBalance(s, pending, dt) ==
    IF pending = <<>>
    THEN s
    ELSE RunToBalance(ToBalanceCall(s, [Head(pending) EXCEPT !.elapsed = @ + dt]),
                      Tail(pending), dt)

toBalanceFrame(dt) ==
    /\ balance.toBalance # <<>>
    /\ balance' = RunToBalance([balance EXCEPT !.toBalance = <<>>],
                               balance.toBalance, dt)
    /\ ev' = "toBalanceFrame"
    /\ UNCHANGED <<pendulum, frameMs, graph, magnet, fieldViz, lab, electro, wave>>

\* the balance demo with the Auto-balance button; the callback of the main
\* loop, which writes the two angles only, is left to BalanceNext
AutoBalanceNext ==
    \/ \E v \in MassValues : mass1RangeInput(v)
    \/ \E v \in BalanceDistValues : dist1RangeInput(v)
    \/ \E v \in MassValues : mass2RangeInput(v)
    \/ \E v \in BalanceDistValues : dist2RangeInput(v)
    \/ balanceResetBtnClick
    \/ balanceBtnClick
    \/ \E dt \in BalanceFrameSteps : toBalanceFrame(dt)

BalanceNext ==
    \/ \E v \in MassValues : mass1RangeInput(v)
    \/ \E v \in BalanceDistValues : dist1RangeInput(v)
    \/ \E v \in MassValues : mass2RangeInput(v)
    \/ \E v \in BalanceDistValues : dist2RangeInput(v)
    \/ balanceResetBtnClick
    \/ balanceAnimate

----------------------------------------------------------------------------
(* Magnet demos (magnet test and magnetic field).  Coordinates are counted *)
(* in units of 0.05, rotations in quarter turns, so that Math.cos and      *)
(* Math.sin are exact.  A field component is kept as its numerator over    *)
(* the divisor r3 = dist^3; r3sq is the square of that divisor.            *)

\* the guard radius 0.1, squared, in units of 0.05 squared
GuardDist2 == 4

\* magnet positions (slider values) and sample coordinates, units of 0.05
MagnetCoords == {-2, 0, 1}

\* sample points lie within this many units of the origin on each axis
SampleSpan == 3

\* values of the strength slider
StrengthValues == {1, 2}

QuarterTurns == 0..3

SamplePoints == ((-SampleSpan)..SampleSpan) \X ((-SampleSpan)..SampleSpan)

\* Math.cos and Math.sin of q quarter turns
CosQ(q) == CASE q % 4 = 0 -> 1 [] q % 4 = 1 -> 0 [] q % 4 = 2 -> -1 [] OTHER -> 0

SinQ(q) == CASE q % 4 = 0 -> 0 [] q % 4 = 1 -> 1 [] q % 4 = 2 -> 0 [] OTHER -> -1

ZeroField == [bx |-> 0, bz |-> 0, strength2 |-> 0, r3sq |-> 1]

\* the field of the magnet test demo with the guard radius given
FieldAtTest(x, z, m, guard2) ==
    LET dx == x - m.x
        dz == z - m.z
        dist2 == dx * dx + dz * dz
    IN  IF dist2 < guard2
        THEN ZeroField
        ELSE LET bx == 3 * dx * dz * m.strength
                 bz == (2 * dz * dz - dx * dx) * m.strength
             IN  [bx |-> bx, bz |-> bz, strength2 |-> bx * bx + bz * bz,
                  r3sq |-> dist2 * dist2 * dist2]

\* the offset (dx, dz) in the coordinates of a magnet turned by rot:
\* dxRot = dx * cosRot - dz * sinRot, dzRot = dx * sinRot + dz * cosRot
\* with cosRot = Math.cos(-rot), sinRot = Math.sin(-rot)
ToMagnetCoordinates(dx, dz, rot) ==
    <<dx * CosQ(-rot) - dz * SinQ(-rot), dx * SinQ(-rot) + dz * CosQ(-rot)>>

\* the field (bxRot, bzRot) taken "back to world coordinates":
\* bx = bxRot * cosRot - bzRot * sinRot, bz = bxRot * sinRot + bzRot * cosRot
\* with the same cosRot and sinRot
ToWorldCoordinates(bxRot, bzRot, rot) ==
    <<bxRot * CosQ(-rot) - bzRot * SinQ(-rot), bxRot * SinQ(-rot) + bzRot * CosQ(-rot)>>

\* the field of the magnetic field demo with the guard radius given
FieldAt(x, z, m, guard2) ==
    LET dx == x - m.x
        dz == z - m.z
        dRot == ToMagnetCoordinates(dx, dz, m.rot)
        dist2 == dx * dx + dz * dz
    IN  IF dist2 < guard2
        THEN ZeroField
        ELSE LET bxRot == 3 * dRot[1] * dRot[2]
                 bzRot == 2 * dRot[2] * dRot[2] - dRot[1] * dRot[1]
                 b == ToWorldCoordinates(bxRot, bzRot, m.rot)
             IN  [bx |-> b[1], bz |-> b[2], strength2 |-> b[1] * b[1] + b[2] * b[2],
                  r3sq |-> dist2 * dist2 * dist2]

\* calculateFieldAt(x, z) of the magnet test demo
calculateFieldAtTest(x, z, m) == FieldAtTest(x, z, m, GuardDist2)

calculateFieldAtUnguarded(x, z, m) == FieldAt(x, z, m, 0)

\* calculateFieldAt(x, z) of the magnetic field demo
calculateFieldAt(x, z, m) == FieldAt(x, z, m, GuardDist2)

\* the field at every sample point, as each demo computes it
SampleField(m) ==
    [p \in SamplePoints |->
        [test |-> calculateFieldAtTest(p[1], p[2], m),
         field |-> calculateFieldAt(p[1], p[2], m)]]

NoViz == [shown |-> FALSE, samples |-> <<>>]

\* most test objects created by presses of Test Material
MaxTestObjects == 2

\* calls of animate() in one attraction animation: progress, counted in
\* steps of 0.02, first fails to be below 1 at the 50th call
AttractionCalls == 50

\* the keys of MATERIALS offered by the material select
MaterialKeys == {"iron", "cobalt", "copper"}

\* MATERIALS[k].magnetic
Magnetic(k) == k \in {"iron", "cobalt"}

\* the test of the magnet test demo: the value of the material select,
\* testMaterialObj (0 is null) and testMaterialType ("" is null), the test
\* objects in the order of their creation with the lerp parameter t of
\* their position, the scene, the result box, the running animate loops
\* (each with the object of its press and its progress in calls) and what
\* the calls of animate() in the last handler or animation frame found:
\* the object of the loop and the value of testMaterialObj
TestState0 ==
    [materialSelect |-> "iron", testMaterialObj |-> 0, testMaterialType |-> "",
     objects |-> <<>>, scene |-> {}, testResult |-> FALSE, loops |-> <<>>,
     calls |-> <<>>]

\* the magnet at the origin; the 500 ms timer that the load handler of the
\* magnetic field demo sets is pending
MagnetState0 ==
    [x |-> 0, z |-> 0, rot |-> 0, strength |-> 1, loadTimer |-> TRUE,
     test |-> TestState0]

MagnetInit ==
    /\ magnet = MagnetState0
    /\ fieldViz = NoViz

\* refreshVisualization(): redraws a visualization that is shown
refreshVisualization(viz, m) ==
    IF viz.shown THEN [shown |-> TRUE, samples |-> SampleField(m)] ELSE viz

magnetXInput(v) ==
    /\ magnet' = [magnet EXCEPT !.x = v]
    /\ fieldViz' = refreshVisualization(fieldViz, magnet')
    /\ ev' = "magnetX"
    /\ UNCHANGED <<pendulum, frameMs, graph, balance, lab, electro, wave>>

magnetZInput(v) ==
    /\ magnet' = [magnet EXCEPT !.z = v]
    /\ fieldViz' = refreshVisualization(fieldViz, magnet')
    /\ ev' = "magnetZ"
    /\ UNCHANGED <<pendulum, frameMs, graph, balance, lab, electro, wave>>

magnetRotInput(q) ==
    /\ magnet' = [magnet EXCEPT !.rot = q]
    /\ fieldViz' = refreshVisualization(fieldViz, magnet')
    /\ ev' = "magnetRot"
    /\ UNCHANGED <<pendulum, frameMs, graph, balance, lab, electro, wave>>

magnetStrengthInput(v) ==
    /\ magnet' = [magnet EXCEPT !.strength = v]
    /\ fieldViz' = refreshVisualization(fieldViz, magnet')
    /\ ev' = "magnetStrength"
    /\ UNCHANGED <<pendulum, frameMs, graph, balance, lab, electro, wave>>

showFieldClick ==
    /\ fieldViz' = [shown |-> TRUE, samples |-> SampleField(magnet)]
    /\ ev' = "showField"
    /\ UNCHANGED <<pendulum, frameMs, graph, balance, lab, electro, wave>>
    /\ UNCHANGED magnet

clearFieldClick ==
    /\ fieldViz' = NoViz
    /\ ev' = "clearField"
    /\ UNCHANGED <<pendulum, frameMs, graph, balance, lab, electro, wave>>
    /\ UNCHANGED magnet

\* the vizMode select changes: clearFieldVisualization()
vizModeChange ==
    /\ fieldViz' = NoViz
    /\ ev' = "vizMode"
    /\ UNCHANGED <<pendulum, frameMs, graph, balance, lab, electro, wave>>
    /\ UNCHANGED magnet

\* the timer of the load handler fires: showCompassNeedles()
loadTimerFire ==
    /\ magnet.loadTimer
    /\ magnet' = [magnet EXCEPT !.loadTimer = FALSE]
    /\ fieldViz' = [shown |-> TRUE, samples |-> SampleField(magnet)]
    /\ ev' = "loadTimer"
    /\ UNCHANGED <<pendulum, frameMs, graph, balance, lab, electro, wave>>

MagnetNext ==
    \/ \E v \in MagnetCoords : magnetXInput(v)
    \/ \E v \in MagnetCoords : magnetZInput(v)
    \/ \E q \in QuarterTurns : magnetRotInput(q)
    \/ \E v \in StrengthValues : magnetStrengthInput(v)
    \/ showFieldClick
    \/ clearFieldClick
    \/ vizModeChange
    \/ loadTimerFire

\* one call of animate() of the loop started for object obj, its progress
\* at p calls before: below 1 it moves testMaterialObj (a TypeError when
\* that is null, which ends the loop) and requests the next frame
AttractionCall(t, obj, p) ==
    LET call == [obj |-> obj, target |-> t.testMaterialObj,
                 threw |-> p + 1 < AttractionCalls /\ t.testMaterialObj = 0]
    IN  IF p + 1 >= AttractionCalls \/ t.testMaterialObj = 0
        THEN [t EXCEPT !.calls = Append(@, call)]
        ELSE [t EXCEPT !.calls = Append(@, call),
                       !.objects[t.testMaterialObj].t = p + 1,
                       !.loops = Append(@, [obj |-> obj, progress |-> p + 1])]

\* the callbacks of one animation frame, run in the order of their requests
RECURSIVE RunCallbacks(_, _)
RunCallbacks(t, pending) ==
    IF pending = <<>>
    THEN t
    ELSE RunCallbacks(AttractionCall(t, Head(pending).obj, Head(pending).progress),
                      Tail(pending))

\* the change handler of the material select
materialSelectChange(k) ==
    /\ k # magnet.test.materialSelect
    /\ magnet' = [magnet EXCEPT !.test.materialSelect = k,
                                !.test.scene = @ \ {magnet.test.testMaterialObj},
                                !.test.testMaterialObj = 0,
                                !.test.testMaterialType = "",
                                !.test.testResult = FALSE,
                                !.test.calls = <<>>]
    /\ ev' = "materialSelect"
    /\ UNCHANGED <<pendulum, frameMs, graph, balance, fieldViz, lab, electro, wave>>

\* the test after the click handler of Test Material created object id
TestStarted(t, id) ==
    [t EXCEPT !.objects = Append(@, [key |-> t.materialSelect, t |-> 0]),
              !.scene = (@ \ {t.testMaterialObj}) \cup {id},
              !.testMaterialObj = id,
              !.testMaterialType = t.materialSelect,
              !.testResult = TRUE,
              !.calls = <<>>]

\* the click handler of Test Material; for a magnetic material it makes the
\* first call of animate() itself
testMaterialClick ==
    /\ Len(magnet.test.objects) < MaxTestObjects
    /\ \E id \in {Len(magnet.test.objects) + 1} :
          magnet' = [magnet EXCEPT !.test =
                        IF Magnetic(magnet.test.materialSelect)
                        THEN AttractionCall(TestStarted(@, id), id, 0)
                        ELSE TestStarted(@, id)]
    /\ ev' = "testMaterial"
    /\ UNCHANGED <<pendulum, frameMs, graph, balance, fieldViz, lab, electro, wave>>

\* the click handler of Reset Test
resetTestClick ==
    /\ magnet' = [magnet EXCEPT !.test.scene = @ \ {magnet.test.testMaterialObj},
                                !.test.testMaterialObj = 0,
                                !.test.testMaterialType = "",
                                !.test.testResult = FALSE,
                                !.test.calls = <<>>]
    /\ ev' = "resetTest"
    /\ UNCHANGED <<pendulum, frameMs, graph, balance, fieldViz, lab, electro, wave>>

\* an animation frame while attraction animations run
attractionFrame ==
    /\ magnet.test.loops # <<>>
    /\ magnet' = [magnet EXCEPT !.test =
                     RunCallbacks([@ EXCEPT !.loops = <<>>, !.calls = <<>>],
                                  magnet.test.loops)]
    /\ ev' = "attractionFrame"
    /\ UNCHANGED <<pendulum, frameMs, graph, balance, fieldViz, lab, electro, wave>>

MagnetTestNext ==
    \/ \E k \in MaterialKeys : materialSelectChange(k)
    \/ testMaterialClick
    \/ resetTestClick
    \/ attractionFrame

----------------------------------------------------------------------------
(* Hydrogen lab *)

\* most pending heating timers, live bubble intervals and live flame loops
MaxLabTimers == 2

\* most gas bubbles in the scene
MaxBubbles == 2

StepButtons == {"addZincBtn", "addHClBtn", "collectGasBtn", "popTestBtn",
                "addCuOBtn", "heatBtn", "passHydrogenBtn", "waterTestBtn"}

\* the buttons the reset handler disables
DisabledAfterReset == StepButtons \ {"addZincBtn"}

\* the texts the reset handler gives the status indicators
StatusAfterReset ==
    [zincStatus |-> "Not added", hclStatus |-> "Not added",
     gasStatus |-> "Not collected", popTestStatus |-> "Not tested",
     cuoStatus |-> "Not added", heatStatus |-> "Not heated",
     reductionStatus |-> "Not reduced", waterTestStatus |-> "Not tested"]

NoClasses ==
    [zincStatus |-> {}, hclStatus |-> {}, gasStatus |-> {},
     popTestStatus |-> {}, cuoStatus |-> {}, heatStatus |-> {},
     reductionStatus |-> {}, waterTestStatus |-> {}]

LabState0 ==
    [zincAdded |-> FALSE, hclAdded |-> FALSE, gasCollected |-> FALSE,
     popTested |-> FALSE, cuoAdded |-> FALSE, heated |-> FALSE,
     hydrogenPassed |-> FALSE, waterTested |-> FALSE,
     disabled |-> DisabledAfterReset,
     text |-> StatusAfterReset, classes |-> NoClasses,
     visible |-> {}, cuoReduced |-> FALSE, cobaltPaper |-> FALSE,
     gasBubbles |-> 0, flashes |-> 0,
     bubbleIntervals |-> 0, flameLoops |-> 0, heatTimers |-> 0]

\* the page as loaded: the step buttons other than Add Zinc carry the
\* disabled attribute, or none does
LabInit ==
    \E d \in {DisabledAfterReset, {}} : lab = [LabState0 EXCEPT !.disabled = d]

addZincBtnState(s) ==
    IF ~s.zincAdded
    THEN [s EXCEPT !.zincAdded = TRUE,
                   !.visible = @ \cup {"zincGranules"},
                   !.text.zincStatus = "Added",
                   !.classes.zincStatus = @ \cup {"complete"},
                   !.disabled = @ \ {"addHClBtn"}]
    ELSE s

addHClBtnState(s) ==
    IF s.zincAdded /\ ~s.hclAdded
    THEN [s EXCEPT !.hclAdded = TRUE,
                   !.text.hclStatus = "Added",
                   !.classes.hclStatus = @ \cup {"complete"},
                   !.disabled = @ \ {"collectGasBtn"},
                   !.bubbleIntervals = @ + 1]
    ELSE s

collectGasBtnState(s) ==
    IF s.hclAdded /\ ~s.gasCollected
    THEN [s EXCEPT !.gasCollected = TRUE,
                   !.text.gasStatus = "Collected",
                   !.classes.gasStatus = @ \cup {"complete"},
                   !.disabled = @ \ {"popTestBtn"},
                   !.visible = @ \cup {"hydrogenGas"}]
    ELSE s

popTestBtnState(s) ==
    IF s.gasCollected /\ ~s.popTested
    THEN [s EXCEPT !.popTested = TRUE,
                   !.text.popTestStatus = "Pop!",
                   !.classes.popTestStatus = @ \cup {"complete"},
                   !.flashes = @ + 1,
                   !.disabled = @ \ {"addCuOBtn"}]
    ELSE s

addCuOBtnState(s) ==
    IF ~s.cuoAdded
    THEN [s EXCEPT !.cuoAdded = TRUE,
                   !.visible = @ \cup {"cuoPowder"},
                   !.text.cuoStatus = "Added",
                   !.classes.cuoStatus = @ \cup {"complete"},
                   !.disabled = @ \ {"heatBtn"}]
    ELSE s

\* the heat handler's effect: the flame loop and the 2 s timer are started
HeatEffect(s) ==
    [s EXCEPT !.heated = TRUE,
              !.text.heatStatus = "Heating",
              !.classes.heatStatus = @ \cup {"active"},
              !.visible = @ \cup {"flame"},
              !.flameLoops = @ + 1,
              !.heatTimers = @ + 1]

heatBtnStateNoFlagGuard(s) == IF s.cuoAdded THEN HeatEffect(s) ELSE s

heatBtnState(s) == IF s.cuoAdded /\ ~s.heated THEN HeatEffect(s) ELSE s

passHydrogenBtnStateNoGasGuard(s) ==
    IF s.heated /\ ~s.hydrogenPassed
    THEN [s EXCEPT !.hydrogenPassed = TRUE,
                   !.text.reductionStatus = "Reduced",
                   !.classes.reductionStatus = @ \cup {"complete"},
                   !.cuoReduced = TRUE,
                   !.visible = @ \cup {"water"},
                   !.disabled = @ \ {"waterTestBtn"}]
    ELSE s

passHydrogenBtnState(s) ==
    IF s.heated /\ s.gasCollected /\ ~s.hydrogenPassed
    THEN [s EXCEPT !.hydrogenPassed = TRUE,
                   !.text.reductionStatus = "Reduced",
                   !.classes.reductionStatus = @ \cup {"complete"},
                   !.cuoReduced = TRUE,
                   !.visible = @ \cup {"water"},
                   !.disabled = @ \ {"waterTestBtn"}]
    ELSE s

waterTestBtnState(s) ==
    IF s.hydrogenPassed /\ ~s.waterTested
    THEN [s EXCEPT !.waterTested = TRUE,
                   !.text.waterTestStatus = "Pink!",
                   !.classes.waterTestStatus = @ \cup {"complete"},
                   !.cobaltPaper = TRUE]
    ELSE s

\* the click handler of a step button
StepState(b, s) ==
    CASE b = "addZincBtn" -> addZincBtnState(s)
      [] b = "addHClBtn" -> addHClBtnState(s)
      [] b = "collectGasBtn" -> collectGasBtnState(s)
      [] b = "popTestBtn" -> popTestBtnState(s)
      [] b = "addCuOBtn" -> addCuOBtnState(s)
      [] b = "heatBtn" -> heatBtnState(s)
      [] b = "passHydrogenBtn" -> passHydrogenBtnState(s)
      [] OTHER -> waterTestBtnState(s)

\* the state flag a step button sets
StepFlag(b, s) ==
    CASE b = "addZincBtn" -> s.zincAdded
      [] b = "addHClBtn" -> s.hclAdded
      [] b = "collectGasBtn" -> s.gasCollected
      [] b = "popTestBtn" -> s.popTested
      [] b = "addCuOBtn" -> s.cuoAdded
      [] b = "heatBtn" -> s.heated
      [] b = "passHydrogenBtn" -> s.hydrogenPassed
      [] OTHER -> s.waterTested

\* a click on a step button; a disabled button dispatches no click
stepBtnClick(b) ==
    /\ b \notin lab.disabled
    /\ StepState(b, lab).heatTimers <= MaxLabTimers
    /\ StepState(b, lab).flameLoops <= MaxLabTimers
    /\ StepState(b, lab).bubbleIntervals <= MaxLabTimers
    /\ StepState(b, lab).flashes <= MaxLabTimers
    /\ lab' = StepState(b, lab)
    /\ ev' = b
    /\ UNCHANGED <<pendulum, frameMs, graph, balance, magnet, fieldViz, electro, wave>>

labResetBtnClick ==
    /\ lab' = [lab EXCEPT !.zincAdded = FALSE, !.hclAdded = FALSE,
                          !.gasCollected = FALSE, !.popTested = FALSE,
                          !.cuoAdded = FALSE, !.heated = FALSE,
                          !.hydrogenPassed = FALSE, !.waterTested = FALSE,
                          !.visible = {}, !.cobaltPaper = FALSE,
                          !.cuoReduced = FALSE, !.gasBubbles = 0,
                          !.disabled = DisabledAfterReset,
                          !.text = StatusAfterReset,
                          !.classes = NoClasses]
    /\ ev' = "labResetBtn"
    /\ UNCHANGED <<pendulum, frameMs, graph, balance, magnet, fieldViz, electro, wave>>

\* the 2000 ms timer of the heat handler fires
heatTimerFire ==
    /\ lab.heatTimers > 0
    /\ lab' = [lab EXCEPT !.heatTimers = @ - 1,
                          !.text.heatStatus = "Heated",
                          !.classes.heatStatus = (@ \ {"active"}) \cup {"complete"},
                          !.disabled = @ \ {"passHydrogenBtn"}]
    /\ ev' = "heatTimer"
    /\ UNCHANGED <<pendulum, frameMs, graph, balance, magnet, fieldViz, electro, wave>>

\* a tick of a 300 ms bubble interval: it clears itself once hclAdded is
\* false, else it adds a bubble
bubbleIntervalTick ==
    /\ lab.bubbleIntervals > 0
    /\ lab.hclAdded => lab.gasBubbles < MaxBubbles
    /\ lab' = IF ~lab.hclAdded
              THEN [lab EXCEPT !.bubbleIntervals = @ - 1]
              ELSE [lab EXCEPT !.gasBubbles = @ + 1]
    /\ ev' = "bubbleInterval"
    /\ UNCHANGED <<pendulum, frameMs, graph, balance, magnet, fieldViz, electro, wave>>

\* animateBubble at progress 1: the bubble leaves the scene and the list
bubbleDone ==
    /\ lab.gasBubbles > 0
    /\ lab' = [lab EXCEPT !.gasBubbles = @ - 1]
    /\ ev' = "animateBubble"
    /\ UNCHANGED <<pendulum, frameMs, graph, balance, magnet, fieldViz, electro, wave>>

\* a frame of an animateFlame loop: it ends once heated is false
flameFrame ==
    /\ lab.flameLoops > 0
    /\ lab' = IF ~lab.heated THEN [lab EXCEPT !.flameLoops = @ - 1] ELSE lab
    /\ ev' = "animateFlame"
    /\ UNCHANGED <<pendulum, frameMs, graph, balance, magnet, fieldViz, electro, wave>>

\* the 200 ms timer of the pop test removes the flash
flashTimerFire ==
    /\ lab.flashes > 0
    /\ lab' = [lab EXCEPT !.flashes = @ - 1]
    /\ ev' = "flashTimer"
    /\ UNCHANGED <<pendulum, frameMs, graph, balance, magnet, fieldViz, electro, wave>>

LabNext ==
    \/ \E b \in StepButtons : stepBtnClick(b)
    \/ labResetBtnClick
    \/ heatTimerFire
    \/ bubbleIntervalTick
    \/ bubbleDone
    \/ flameFrame
    \/ flashTimerFire

----------------------------------------------------------------------------
(* Electrostatics demo (part_002, second script).  An execution of an      *)
(* async function runs without interruption up to an await of a model that *)
(* is not in modelCache (a network load) and is resumed by loadDone.       *)
(* Groups are numbered in the order of their creation, 0 stands for null.  *)
(* Positions are in cm, rotations in mrad.  The texts of the panel are     *)
(* functions of state.A and state.B and are not kept.                      *)

\* materials offered by the two selects (three of the seven)
Keys == {"plastic_pen", "fur", "glass"}

\* materials[k].rank
Rank(k) == CASE k = "glass" -> 5 [] k = "fur" -> 3 [] OTHER -> 1

\* values of the distance slider, cm
ElectroDistValues == {100, 200}

\* materials whose model file loads; for the others every path fails and
\* loadModel falls back to a primitive shape
Loadable == {"plastic_pen", "fur"}

\* most inputs of the user in a run (selections, presses, slider moves)
MaxElectroInputs == 2

\* most presses of Rub, Reverse rub and Reset in a run of presses only
MaxRubInputs == 18

\* most refreshes pending when a press of such a run is made
MaxPendingRefresh == 0

\* the clamp bound of a charge, micro-coulomb
ChargeLimit == 50

\* rubDistance * 0.5, cm
RubOffsetPeak == 15

\* the rotation at the peak of a rub cycle, mrad
RubRotPeak == 200

\* targetDistance = originalDistance * 0.3, in percent
RubClosePct == 30

Null == [grp |-> 0, sign |-> 0]

EmptyGroup(o) ==
    [obj |-> o, models |-> <<>>, labels |-> <<>>, nInd |-> 0, x |-> 0, rot |-> 0]

ElectroState0 ==
    [A |-> [key |-> "plastic_pen", charge |-> 0],
     B |-> [key |-> "fur", charge |-> 0],
     dist |-> 100,
     groups |-> <<>>, scene |-> {},
     objectAGroup |-> 0, objectBGroup |-> 0,
     chargeIndicatorA |-> Null, chargeIndicatorB |-> Null,
     forceArrow |-> "none",
     modelCache |-> [k \in Keys |-> "none"],
     isRubbing |-> FALSE, anims |-> <<>>, timers |-> 0,
     tasks |-> <<>>, nextId |-> 1, inputs |-> 0]

ObjGroup(s, o) == IF o = "A" THEN s.objectAGroup ELSE s.objectBGroup

ObjState(s, o) == IF o = "A" THEN s.A ELSE s.B

Sign(q) == IF q > 0 THEN 1 ELSE IF q < 0 THEN -1 ELSE 0

\* clamp(v, a, b)
clamp(v, a, b) == Max2(a, Min2(b, v))

\* groups that nothing refers to any more are forgotten
Live(s) ==
    s.scene \cup ({s.objectAGroup, s.objectBGroup} \ {0})
            \cup {s.anims[i].p : i \in DOMAIN s.anims}
            \cup {s.anims[i].s : i \in DOMAIN s.anims}

Collect(s) ==
    [s EXCEPT !.groups = [g \in (DOMAIN s.groups) \cap Live(s) |-> s.groups[g]]]

\* updateObjectA / updateObjectB up to the await: the displayed group leaves
\* the scene and a new, empty group takes its place in objectAGroup
UpdateBegin(s, o) ==
    LET id == s.nextId
        t == [s EXCEPT !.scene = @ \ {ObjGroup(s, o)},
                       !.groups = [g \in DOMAIN s.groups \cup {id} |->
                                      IF g = id THEN EmptyGroup(o) ELSE s.groups[g]],
                       !.nextId = id + 1]
    IN  IF o = "A" THEN [t EXCEPT !.objectAGroup = id]
                   ELSE [t EXCEPT !.objectBGroup = id]

\* updateObjectA / updateObjectB after the await, into group g: the model
\* loaded for key, the charge indicator and the label of the selected
\* material are added to it, and it is added to the scene
UpdateEndInto(s, o, key, g) ==
    LET old == IF o = "A" THEN s.chargeIndicatorA ELSE s.chargeIndicatorB
        q == ObjState(s, o).charge
        removed == IF old # Null /\ old.grp = g THEN 1 ELSE 0
        new == IF q = 0 THEN Null ELSE [grp |-> g, sign |-> Sign(q)]
        added == IF q = 0 THEN 0 ELSE 1
        t == [s EXCEPT !.groups[g].models = Append(@, key),
                       !.groups[g].nInd = @ - removed + added,
                       !.groups[g].labels = Append(@, ObjState(s, o).key),
                       !.scene = @ \cup {g}]
    IN  IF o = "A" THEN [t EXCEPT !.chargeIndicatorA = new]
                   ELSE [t EXCEPT !.chargeIndicatorB = new]

\* the part after the await fills the group that the global objectAGroup /
\* objectBGroup names when it runs
UpdateEnd(s, o, key) == UpdateEndInto(s, o, key, ObjGroup(s, o))

\* updateObjectPositions(distance)
updateObjectPositions(s, distance) ==
    LET a == s.objectAGroup
        b == s.objectBGroup
        t == IF a # 0 THEN [s EXCEPT !.groups[a].x = -(distance \div 2)] ELSE s
    IN  IF b # 0 THEN [t EXCEPT !.groups[b].x = distance \div 2] ELSE t

\* objectAGroup.rotation.y = 0; objectBGroup.rotation.y = 0
ResetRotations(s) ==
    LET a == s.objectAGroup
        b == s.objectBGroup
        t == IF a # 0 THEN [s EXCEPT !.groups[a].rot = 0] ELSE s
    IN  IF b # 0 THEN [t EXCEPT !.groups[b].rot = 0] ELSE t

\* computeForce(): the old arrows are removed; with a charge present new
\* ones are built from the positions of both groups (a TypeError, and no
\* arrows, when one of them is still null)
computeForce(s) ==
    LET q1 == s.A.charge
        q2 == s.B.charge
    IN  [s EXCEPT !.forceArrow =
            IF q1 = 0 /\ q2 = 0 THEN "none"
            ELSE IF s.objectAGroup = 0 \/ s.objectBGroup = 0 THEN "none"
            ELSE IF q1 * q2 < 0 THEN "attract" ELSE "repel"]

Suspend(s, kind, o, key) ==
    [s EXCEPT !.tasks = Append(@, [kind |-> kind, at |-> o, key |-> key])]

\* what a handler does after its last awaited update
Finish(s, kind) ==
    CASE kind = "init" -> updateObjectPositions(s, s.dist)
      [] kind = "reset" ->
             computeForce(ResetRotations(updateObjectPositions(s, s.dist)))
      [] OTHER -> computeForce(s)

\* await updateObjectB() and what follows it
RunB(s, kind) ==
    LET t == UpdateBegin(s, "B")
        key == t.B.key
    IN  IF t.modelCache[key] # "none"
        THEN Finish(UpdateEnd(t, "B", key), kind)
        ELSE Suspend(t, kind, "B", key)

\* what follows await updateObjectA(): the objA change handler is done, the
\* others go on to await updateObjectB()
AfterA(s, kind) == IF kind = "changeA" THEN Finish(s, kind) ELSE RunB(s, kind)

\* await updateObjectA() with a loadModel that never looks into modelCache
RunANoCache(s, kind) ==
    Suspend(UpdateBegin(s, "A"), kind, "A", UpdateBegin(s, "A").A.key)

\* await updateObjectA() and what follows it
RunA(s, kind) ==
    LET t == UpdateBegin(s, "A")
        key == t.A.key
    IN  IF t.modelCache[key] # "none"
        THEN AfterA(UpdateEnd(t, "A", key), kind)
        ELSE Suspend(t, kind, "A", key)

\* init() has run up to its first await
ElectroInit ==
    \E d \in ElectroDistValues :
        electro = RunA([ElectroState0 EXCEPT !.dist = d], "init")

\* the state as an input of the user finds it
Input(s) == [s EXCEPT !.inputs = @ + 1]

InputRoom == electro.inputs < MaxElectroInputs

\* the select of object A changes to k (a change event: k is another value)
objAChange(k) ==
    /\ InputRoom
    /\ k # electro.A.key
    /\ electro' = Collect(RunA([Input(electro) EXCEPT !.A = [key |-> k, charge |-> 0]],
                               "changeA"))
    /\ ev' = "objA"
    /\ UNCHANGED <<pendulum, frameMs, graph, balance, magnet, fieldViz, lab, wave>>

objBChange(k) ==
    /\ InputRoom
    /\ k # electro.B.key
    /\ electro' = Collect(RunB([Input(electro) EXCEPT !.B = [key |-> k, charge |-> 0]],
                               "changeB"))
    /\ ev' = "objB"
    /\ UNCHANGED <<pendulum, frameMs, graph, balance, magnet, fieldViz, lab, wave>>

electroResetBtnClick ==
    /\ InputRoom
    /\ electro' = Collect(RunA([Input(electro) EXCEPT !.A.charge = 0, !.B.charge = 0,
                                               !.isRubbing = FALSE,
                                               !.forceArrow = "none"],
                               "reset"))
    /\ ev' = "electroResetBtn"
    /\ UNCHANGED <<pendulum, frameMs, graph, balance, magnet, fieldViz, lab, wave>>

distRangeInput(v) ==
    /\ InputRoom
    /\ electro' = computeForce(updateObjectPositions([Input(electro) EXCEPT !.dist = v], v))
    /\ ev' = "distRange"
    /\ UNCHANGED <<pendulum, frameMs, graph, balance, magnet, fieldViz, lab, wave>>

\* a load that an execution awaits settles (with a model, or with the
\* fallback shape after every path failed): the result is cached and the
\* execution goes on
loadDone(i) ==
    /\ i \in DOMAIN electro.tasks
    /\ LET task == electro.tasks[i]
           s0 == [electro EXCEPT !.tasks = RemoveAt(@, i),
                                 !.modelCache[task.key] =
                                     IF task.key \in Loadable THEN "model"
                                                              ELSE "fallback"]
           s1 == UpdateEnd(s0, task.at, task.key)
       IN  electro' = Collect(IF task.at = "A" THEN AfterA(s1, task.kind)
                                               ELSE Finish(s1, task.kind))
    /\ ev' = "loadDone"
    /\ UNCHANGED <<pendulum, frameMs, graph, balance, magnet, fieldViz, lab, wave>>

\* the first frame of a rubbing animation, run by animateRubbing itself
RubStart(s, primaryGroup, secondaryGroup) ==
    LET half == (s.dist * RubClosePct) \div 200
    IN  [s EXCEPT !.groups[primaryGroup].x = -half,
                  !.groups[primaryGroup].rot = 0,
                  !.groups[secondaryGroup].x = half,
                  !.groups[secondaryGroup].rot = 0]

RubAnimation(s, primary, secondary) ==
    [p |-> ObjGroup(s, primary), s |-> ObjGroup(s, secondary),
     originalDistance |-> s.dist,
     primaryOriginal |-> IF primary = "A" THEN -(s.dist \div 2) ELSE s.dist \div 2,
     secondaryOriginal |-> IF secondary = "A" THEN -(s.dist \div 2) ELSE s.dist \div 2,
     phase |-> "rub"]

\* animateRubbing(primary, secondary) without its first line
RubNoGuard(s, primary, secondary) ==
    IF ObjGroup(s, primary) = 0 \/ ObjGroup(s, secondary) = 0
    THEN [s EXCEPT !.isRubbing = FALSE]
    ELSE [RubStart(s, ObjGroup(s, primary), ObjGroup(s, secondary))
          EXCEPT !.isRubbing = TRUE,
                 !.anims = Append(@, RubAnimation(s, primary, secondary))]

\* animateRubbing(primary, secondary)
animateRubbing(s, primary, secondary) ==
    IF s.isRubbing THEN s ELSE RubNoGuard(s, primary, secondary)

\* Math.max(1, Math.round(base * (1 + Math.random() * 0.6)))
Transfers(base) ==
    {Max2(1, t) : t \in {u \in base..(2 * base) : 10 * u < 16 * base + 5}}

\* the transfers doRub can draw for the materials selected; for equal ranks
\* Math.round(1 + Math.random() * 2) with either sign
RubTransfers(s) ==
    IF Rank(s.A.key) = Rank(s.B.key)
    THEN {-3, -2, -1, 1, 2, 3}
    ELSE Transfers(Abs(Rank(s.A.key) - Rank(s.B.key)))

\* doRub without the clamp of the charges
doRubNoClamp(s, primary, secondary, t) ==
    LET keyP == ObjState(s, primary).key
        keyS == ObjState(s, secondary).key
        diff == Rank(keyP) - Rank(keyS)
        gain == IF diff > 0 THEN t ELSE IF diff < 0 THEN -t ELSE t
        dA == IF primary = "A" THEN gain ELSE -gain
        r == animateRubbing(s, primary, secondary)
    IN  IF keyP = keyS
        THEN s
        ELSE [r EXCEPT !.A.charge = r.A.charge + dA,
                       !.B.charge = r.B.charge - dA,
                       !.timers = @ + 1]

\* doRub(primary, secondary), the number drawn being t
doRub(s, primary, secondary, t) ==
    LET keyP == ObjState(s, primary).key
        keyS == ObjState(s, secondary).key
        diff == Rank(keyP) - Rank(keyS)
        gain == IF diff > 0 THEN t ELSE IF diff < 0 THEN -t ELSE t
        dA == IF primary = "A" THEN gain ELSE -gain
        r == animateRubbing(s, primary, secondary)
    IN  IF keyP = keyS
        THEN s
        ELSE [r EXCEPT
                !.A.charge = clamp(r.A.charge + dA, -ChargeLimit, ChargeLimit),
                !.B.charge = clamp(r.B.charge - dA, -ChargeLimit, ChargeLimit),
                !.timers = @ + 1]

rubBtnClick ==
    /\ InputRoom
    /\ \E t \in RubTransfers(electro) :
          electro' = doRub(Input(electro), "A", "B", t)
    /\ ev' = "rubBtn"
    /\ UNCHANGED <<pendulum, frameMs, graph, balance, magnet, fieldViz, lab, wave>>

reverseRubClick ==
    /\ InputRoom
    /\ \E t \in RubTransfers(electro) :
          electro' = doRub(Input(electro), "B", "A", t)
    /\ ev' = "reverseRub"
    /\ UNCHANGED <<pendulum, frameMs, graph, balance, magnet, fieldViz, lab, wave>>

\* the 500 ms timer of doRub fires: await updateObjectA(); await
\* updateObjectB(); updateUI(); computeForce()
rubTimerFire ==
    /\ electro.timers > 0
    /\ electro' = Collect(RunA([electro EXCEPT !.timers = @ - 1], "rub"))
    /\ ev' = "rubTimer"
    /\ UNCHANGED <<pendulum, frameMs, graph, balance, magnet, fieldViz, lab, wave>>

\* a later frame of rubbing animation i: one at the peak of a rub cycle,
\* then one halfway through the return (easeOut = 7/8), then the last one
rubAnimate(i) ==
    /\ i \in DOMAIN electro.anims
    /\ LET a == electro.anims[i]
           half == (a.originalDistance * RubClosePct) \div 200
           endP == -half + RubOffsetPeak
           endS == half - RubOffsetPeak
       IN  electro' =
             CASE a.phase = "rub" ->
                    [electro EXCEPT !.groups[a.p].x = endP,
                                    !.groups[a.p].rot = RubRotPeak,
                                    !.groups[a.s].x = endS,
                                    !.groups[a.s].rot = -RubRotPeak,
                                    !.anims[i].phase = "return"]
               [] a.phase = "return" ->
                    [electro EXCEPT
                       !.groups[a.p].x = endP + RDiv((a.primaryOriginal - endP) * 7, 8),
                       !.groups[a.p].rot = RubRotPeak \div 8,
                       !.groups[a.s].x = endS + RDiv((a.secondaryOriginal - endS) * 7, 8),
                       !.groups[a.s].rot = -(RubRotPeak \div 8),
                       !.anims[i].phase = "last"]
               [] OTHER ->
                    Collect([electro EXCEPT
                               !.groups[a.p].x = a.primaryOriginal,
                               !.groups[a.p].rot = 0,
                               !.groups[a.s].x = a.secondaryOriginal,
                               !.groups[a.s].rot = 0,
                               !.anims = RemoveAt(@, i),
                               !.isRubbing = FALSE])
    /\ ev' = "rubAnimate"
    /\ UNCHANGED <<pendulum, frameMs, graph, balance, magnet, fieldViz, lab, wave>>

ElectroNext ==
    \/ \E k \in Keys : objAChange(k)
    \/ \E k \in Keys : objBChange(k)
    \/ electroResetBtnClick
    \/ \E v \in ElectroDistValues : distRangeInput(v)
    \/ \E i \in DOMAIN electro.tasks : loadDone(i)
    \/ rubBtnClick
    \/ reverseRubClick
    \/ rubTimerFire
    \/ \E i \in DOMAIN electro.anims : rubAnimate(i)

----------------------------------------------------------------------------
(* Wave demo (part_001, second script).  state.time is counted in steps of *)
(* 0.016 s, the amount a frame adds to it.  presses counts the clicks on   *)
(* the Pause button.                                                       *)

\* most animation frames and most presses of Pause in a run
MaxWaveFrames == 12

MaxPausePresses == 8

\* what the page holds of the script before the script has run: the size of
\* the window, the size the script gave the canvas (<<>>: none yet), the
\* const, let and class names whose declaration has been evaluated, the
\* elements with a listener, the error that stopped the script, and
\* whether animate() has asked for its next frame
LoadState0 ==
    [phase |-> "unloaded", window |-> <<>>, canvas |-> <<>>, declared |-> {},
     listeners |-> {}, error |-> "", loop |-> FALSE]

WaveState0 ==
    [time |-> 0, isPaused |-> FALSE, presses |-> 0, frames |-> 0,
     load |-> LoadState0]

\* the Pause button, once the script has given it its listener:
\* state.isPaused = !state.isPaused
pauseBtnClick ==
    /\ "pauseBtn" \in wave.load.listeners
    /\ wave.presses < MaxPausePresses
    /\ wave' = [wave EXCEPT !.isPaused = ~@, !.presses = @ + 1]
    /\ ev' = "pauseBtn"
    /\ UNCHANGED <<pendulum, frameMs, graph, balance, magnet, fieldViz, lab, electro>>

\* a frame that adds the step whether the demo is paused or not
waveAnimateNoPauseCheck ==
    /\ wave.load.loop
    /\ wave.frames < MaxWaveFrames
    /\ wave' = [wave EXCEPT !.time = @ + 1, !.frames = @ + 1]
    /\ ev' = "waveAnimate"
    /\ UNCHANGED <<pendulum, frameMs, graph, balance, magnet, fieldViz, lab, electro>>

\* animate() as the callback of the frame it asked for:
\* if (!state.isPaused) state.time += 0.016, then the redraw
waveAnimate ==
    /\ wave.load.loop
    /\ wave.frames < MaxWaveFrames
    /\ wave' = [wave EXCEPT !.time = IF ~wave.isPaused THEN @ + 1 ELSE @,
                            !.frames = @ + 1]
    /\ ev' = "waveAnimate"
    /\ UNCHANGED <<pendulum, frameMs, graph, balance, magnet, fieldViz, lab, electro>>

----------------------------------------------------------------------------
(* The top level of the wave script.  Function declarations are hoisted;   *)
(* a const, a let or a class can be used only once its declaration has     *)
(* been evaluated, and a use before that throws a ReferenceError, which    *)
(* ends the script at that statement.                                      *)

WindowWidths == {320, 800, 1024, 1280}

WindowHeights == {240, 600, 768}

\* the statements of the top level, in the order of the file
WaveScript ==
    <<"const canvas", "const ctx", "resizeCanvas()", "listen resize",
      "const state", "class WaveField", "let waveField", "listen controls",
      "updateCurrentMode()", "animate()">>

\* the place of const state in WaveScript
StateStatement == 5

WaveControls ==
    {"planeWaveBtn", "pointSourceBtn", "twoSourcesBtn", "reflectionBtn",
     "refractionBtn", "diffractionBtn", "interferenceBtn", "clearBtn",
     "pauseBtn", "frequencyRange", "amplitudeRange", "speedRange"}

\* a statement that reads the names of uses: it throws when one of them has
\* no value yet, and otherwise has the effect done
Using(w, uses, done) ==
    IF uses \subseteq w.load.declared
    THEN done
    ELSE [w EXCEPT !.load.error = "ReferenceError"]

Declare(w, name) == [w EXCEPT !.load.declared = @ \cup {name}]

\* resizeCanvas(): the canvas takes the size of the window, then a new
\* WaveField is assigned to waveField, then state.pointSources is read
resizeCanvas(w) ==
    Using(w, {"canvas"},
          Using([w EXCEPT !.load.canvas = w.load.window],
                {"WaveField", "waveField"},
                Using([w EXCEPT !.load.canvas = w.load.window],
                      {"state"},
                      [w EXCEPT !.load.canvas = w.load.window])))

\* the first call of animate(): one frame, then requestAnimationFrame
animateCall(w) ==
    Using(w, {"state", "ctx", "canvas", "waveField"},
          [w EXCEPT !.time = IF ~w.isPaused THEN @ + 1 ELSE @,
                    !.frames = @ + 1,
                    !.load.loop = TRUE])

Exec(stmt, w) ==
    CASE stmt = "const canvas" -> Declare(w, "canvas")
      [] stmt = "const ctx" -> Using(w, {"canvas"}, Declare(w, "ctx"))
      [] stmt = "resizeCanvas()" -> resizeCanvas(w)
      [] stmt = "listen resize" ->
             [w EXCEPT !.load.listeners = @ \cup {"window"}]
      [] stmt = "const state" ->
             Using(w, {"canvas"},
                   Declare([w EXCEPT !.time = 0, !.isPaused = FALSE], "state"))
      [] stmt = "class WaveField" -> Declare(w, "WaveField")
      [] stmt = "let waveField" ->
             Using(w, {"WaveField", "canvas"}, Declare(w, "waveField"))
      [] stmt = "listen controls" ->
             [w EXCEPT !.load.listeners = @ \cup WaveControls]
      [] stmt = "updateCurrentMode()" -> Using(w, {"state"}, w)
      [] stmt = "animate()" -> animateCall(w)

\* the script from its statement i on, until one of them throws
RECURSIVE RunWaveScript(_, _)
RunWaveScript(w, i) ==
    IF i > Len(WaveScript) \/ w.load.error # ""
    THEN w
    ELSE RunWaveScript(Exec(WaveScript[i], w), i + 1)

\* the page runs the script, once
waveScriptRun ==
    /\ wave.load.phase = "loading"
    /\ wave' = [RunWaveScript(wave, 1) EXCEPT !.load.phase = "loaded"]
    /\ ev' = "waveScript"
    /\ UNCHANGED <<pendulum, frameMs, graph, balance, magnet, fieldViz, lab, electro>>

\* the user resizes the window: resizeCanvas() runs if the script got as
\* far as making it the listener
waveWindowResize(width, height) ==
    /\ wave.load.phase # "unloaded"
    /\ <<width, height>> # wave.load.window
    /\ wave' = IF "window" \in wave.load.listeners
               THEN resizeCanvas([wave EXCEPT !.load.window = <<width, height>>])
               ELSE [wave EXCEPT !.load.window = <<width, height>>]
    /\ ev' = "windowResize"
    /\ UNCHANGED <<pendulum, frameMs, graph, balance, magnet, fieldViz, lab, electro>>

WaveLoadNext ==
    \/ waveScriptRun
    \/ \E width \in WindowWidths, height \in WindowHeights :
           waveWindowResize(width, height)

----------------------------------------------------------------------------
(* Specifications.  Each demo is a page of its own; while another page is  *)
(* the one in use, a demo's record keeps the value of its declaration.     *)

PendulumIdle == pendulum = PendulumState0 /\ frameMs = DeltaCapMs /\ graph = NoGraph

BalanceIdle == balance = BalanceState0

MagnetIdle == magnet = MagnetState0 /\ fieldViz = NoViz

LabIdle == lab = LabState0

ElectroIdle == electro = ElectroState0

WaveIdle == wave = WaveState0

\* Measuring: sliders, Start, Stop, Reset and the animation frames
PendulumNext ==
    \/ \E v \in LengthValues : lengthRangeInput(v)
    \/ \E v \in AngleValues : angleRangeInput(v)
    \/ startBtnClick
    \/ stopBtnClick
    \/ resetBtnClick
    \/ pendulumAnimate

InitPendulum ==
    /\ ev = "init"
    /\ PendulumInit
    /\ BalanceIdle /\ MagnetIdle /\ LabIdle /\ ElectroIdle /\ WaveIdle

SpecPendulum == InitPendulum /\ [][PendulumNext]_vars

\* Recording: measurements at the slowest refresh, recorded, deleted and
\* cleared, the length slider moved between them
RecordNext ==
    \/ \E v \in LengthValues : lengthRangeInput(v)
    \/ startBtnClick
    \/ stopBtnClick
    \/ pendulumAnimate
    \/ recordBtnClick
    \/ \E i \in 1..MaxPoints : deleteBtnClick(i)
    \/ clearDataBtnClick
    \/ windowResize

InitRecord ==
    /\ ev = "init"
    /\ PendulumInit
    /\ \A r \in RefreshValues : frameMs >= r
    /\ BalanceIdle /\ MagnetIdle /\ LabIdle /\ ElectroIdle /\ WaveIdle

SpecRecord == InitRecord /\ [][RecordNext]_vars

----------------------------------------------------------------------------
(* Regression and graph on drawn inputs: the data points are drawn from     *)
(* straight lines y = m * x + c, then the graph is redrawn and rows deleted *)

\* slopes, intercepts and abscissae the points are drawn from
SlopeValues == {-1, 0, 1, 2, 3}

InterceptValues == {-5, 0, 7}

XValues == {10, 20, 50}

\* most points in a drawn list
MaxFitPoints == 3

PointOnLine(m, c, x) ==
    [length |-> x, period |-> 0, periodSquared |-> m * x + c]

LinePoints(m, c, xs) == [i \in DOMAIN xs |-> PointOnLine(m, c, xs[i])]

XLists == UNION {[1..n -> XValues] : n \in 2..MaxFitPoints}

InitGraph ==
    /\ ev = "init"
    /\ frameMs = DeltaCapMs
    /\ graph = NoGraph
    /\ \E m \in SlopeValues, c \in InterceptValues, xs \in XLists :
          pendulum = [PendulumState0 EXCEPT !.dataPoints = LinePoints(m, c, xs)]
    /\ BalanceIdle /\ MagnetIdle /\ LabIdle /\ ElectroIdle /\ WaveIdle

GraphNext ==
    \/ windowResize
    \/ \E i \in 1..MaxFitPoints : deleteBtnClick(i)

SpecGraph == InitGraph /\ [][GraphNext]_vars

----------------------------------------------------------------------------
(* The other demos *)

InitBalance ==
    /\ ev = "init"
    /\ balance = BalanceState0
    /\ PendulumIdle /\ MagnetIdle /\ LabIdle /\ ElectroIdle /\ WaveIdle

SpecBalance == InitBalance /\ [][BalanceNext]_vars

SpecAutoBalance == InitBalance /\ [][AutoBalanceNext]_vars

\* The beam settling: the sliders as the user has set them between the
\* frame that init() runs and the next one, then the animation frames
InitBeam ==
    /\ ev = "init"
    /\ \E m1 \in MassValues, d1 \in BalanceDistValues,
          m2 \in MassValues, d2 \in BalanceDistValues :
          balance = [BalanceState0 EXCEPT !.mass1 = m1, !.dist1 = d1,
                                          !.mass2 = m2, !.dist2 = d2]
    /\ PendulumIdle /\ MagnetIdle /\ LabIdle /\ ElectroIdle /\ WaveIdle

SpecBeam == InitBeam /\ [][beamAnimate]_vars

\* the page of the wave demo, its script not yet run
InitWaveLoad ==
    /\ ev = "init"
    /\ \E width \in WindowWidths, height \in WindowHeights :
           wave = [WaveState0 EXCEPT !.load.phase = "loading",
                                     !.load.window = <<width, height>>]
    /\ PendulumIdle /\ BalanceIdle /\ MagnetIdle /\ LabIdle /\ ElectroIdle

SpecWaveLoad == InitWaveLoad /\ [][WaveLoadNext]_vars

\* the statements of the script from const state on, run from the
\* bindings of canvas and ctx: the handlers and the loop of frames are in
\* place and the frame of the call of animate() has run
InitWave ==
    /\ ev = "init"
    /\ \E width \in WindowWidths, height \in WindowHeights :
           wave = RunWaveScript([WaveState0 EXCEPT
                                    !.load.phase = "loaded",
                                    !.load.window = <<width, height>>,
                                    !.load.canvas = <<width, height>>,
                                    !.load.declared = {"canvas", "ctx"},
                                    !.load.listeners = {"window"}],
                                StateStatement)
    /\ PendulumIdle /\ BalanceIdle /\ MagnetIdle /\ LabIdle /\ ElectroIdle

SpecWave == InitWave /\ [][pauseBtnClick \/ waveAnimate]_vars

InitMagnet ==
    /\ ev = "init"
    /\ MagnetInit
    /\ PendulumIdle /\ BalanceIdle /\ LabIdle /\ ElectroIdle /\ WaveIdle

SpecMagnet == InitMagnet /\ [][MagnetNext]_vars

SpecMagnetTest == InitMagnet /\ [][MagnetTestNext]_vars

InitLab ==
    /\ ev = "init"
    /\ LabInit
    /\ PendulumIdle /\ BalanceIdle /\ MagnetIdle /\ ElectroIdle /\ WaveIdle

SpecLab == InitLab /\ [][LabNext]_vars

InitElectro ==
    /\ ev = "init"
    /\ ElectroInit
    /\ PendulumIdle /\ BalanceIdle /\ MagnetIdle /\ LabIdle /\ WaveIdle

SpecElectro == InitElectro /\ [][ElectroNext]_vars

\* Runs of presses of Rub, Reverse rub and Reset with the materials the page
\* starts with; the count of inputs starts so far below MaxElectroInputs
\* that MaxRubInputs presses have room.  The user presses while no load is
\* awaited and at most MaxPendingRefresh refreshes of earlier rubs are
\* pending; a rubbing animation may be running when Rub or Reverse rub
\* is pressed, none when Reset is.
InitRub ==
    /\ ev = "init"
    /\ \E d \in ElectroDistValues :
          electro = [RunA([ElectroState0 EXCEPT !.dist = d], "init")
                        EXCEPT !.inputs = MaxElectroInputs - MaxRubInputs]
    /\ PendulumIdle /\ BalanceIdle /\ MagnetIdle /\ LabIdle /\ WaveIdle

PressRoom == electro.tasks = <<>> /\ electro.timers <= MaxPendingRefresh

RubNext ==
    \/ PressRoom /\ rubBtnClick
    \/ PressRoom /\ reverseRubClick
    \/ PressRoom /\ electro.anims = <<>> /\ electroResetBtnClick
    \/ \E i \in DOMAIN electro.tasks : loadDone(i)
    \/ rubTimerFire
    \/ \E i \in DOMAIN electro.anims : rubAnimate(i)

SpecRub == InitRub /\ [][RubNext]_vars

----------------------------------------------------------------------------
(* Claims: simple pendulum *)

DistinctX(points) ==
    \E i, j \in DOMAIN points : points[i].length # points[j].length

OnLine(points, m, c) ==
    \A i \in DOMAIN points : points[i].periodSquared = m * points[i].length + c

gValueHundredths(gr) == (2 * 100 * G100 * gr.g[1] + gr.g[2]) \div (2 * gr.g[2])

\* C19: for data points that lie exactly on T^2 = (4 * pi^2 / g0) * L, L the
\* length in metres (recorded in cm), the g shown with the unit m/s^2 is
\* g0: 9.81 for the ideal data (m = 1), 3.27 for g0 = 9.81 / 3 (m = 3).
C19_ShownGIsG0 ==
    \A m \in {k \in SlopeValues : k > 0 /\ G100 % k = 0} :
        (/\ graph.drawn
         /\ Len(pendulum.dataPoints) >= 2
         /\ DistinctX(pendulum.dataPoints)
         /\ OnLine(pendulum.dataPoints, m, 0))
        => gValueHundredths(graph) * m = G100

\* (2 * pi)^2 * L / g in ms^2 for L = length cm: the square of the ideal
\* period 2 * pi * sqrt(L / g)
IdealPeriodSquared(length) == (FourPiSq * length * 100) \div G100

\* C4: while a run from a small initial angle is in progress and at least
\* one oscillation is counted, the measured period elapsedTime / oscillations
\* is the ideal period 2*pi*sqrt(L/g), to within 5 % (10 % of its square).
C4_MeasuredPeriodIsIdeal ==
    (pendulum.isRunning /\ pendulum.oscillations >= 1)
    => LET p == MeasuredPeriod(pendulum)
           t2 == IdealPeriodSquared(pendulum.length)
       IN  /\ 100 * p * p >= 90 * t2
           /\ 100 * p * p <= 110 * t2

\* C5: whenever the graph is drawn, none of its divisors is zero: the two
\* plotted ranges, the regression's n*sumXX - sumX*sumX, and the slope that
\* g = 4*pi^2 / slope divides by.
C5_GraphNeverDividesByZero ==
    graph.drawn => /\ graph.xDiv # 0
                   /\ graph.yDiv # 0
                   /\ graph.slope[2] # 0
                   /\ graph.slope[1] # 0

\* C8: a Start press while running leaves the whole state record as it is;
\* a Start press while stopped begins a run at the initial angle with the
\* velocity, time, oscillation count and first-crossing time at 0.
C8_StartOnlyWhenStopped ==
    [][ev' = "startBtn" =>
          IF pendulum.isRunning
          THEN pendulum' = pendulum
          ELSE /\ pendulum'.isRunning
               /\ pendulum'.angle = DegToRad(pendulum.initialAngle)
               /\ pendulum'.angularVelocity = 0
               /\ pendulum'.elapsedTime = 0
               /\ pendulum'.oscillations = 0
               /\ pendulum'.lastCrossTime = 0]_vars

\* C8 witness: Start was the last press and the run it was pressed in has
\* gone on (time has elapsed, the pendulum has left its initial angle)
C8_Witness ==
    /\ ev = "startBtn"
    /\ pendulum.isRunning
    /\ pendulum.elapsedTime > 0
    /\ pendulum.angle # DegToRad(pendulum.initialAngle)

\* C10: an animation frame while isRunning is false changes no field of
\* the state record.
C10_FrameFrozenWhenStopped ==
    [][(ev' = "animate" /\ ~pendulum.isRunning) => pendulum' = pendulum]_vars

\* C10 witness: a frame has run on a measurement that Stop froze midway
C10_Witness ==
    /\ ev = "animate"
    /\ ~pendulum.isRunning
    /\ pendulum.elapsedTime > 0
    /\ pendulum.angularVelocity # 0

----------------------------------------------------------------------------
(* Claims: balance demo *)

Balanced(s) == s.mass1 * s.dist1 = s.mass2 * s.dist2

\* C1 as stated: after a frame on sliders with mass1*dist1 = mass2*dist2 the
\* target tilt angle that calculateTiltAngle returned is 0.
C1_BalancedTiltIsZero ==
    (ev = "balanceAnimate" /\ Balanced(balance)) => balance.targetAngle = FZero

\* C1 amended: after a frame, if the two moments that calculateMoments
\* computes are equal then the target tilt angle is exactly 0; on sliders
\* with mass1*dist1 = mass2*dist2 the computed moments can differ by a
\* rounding error, and the target tilt angle is then 0 only to within
\* 2^-40 rad.
C1_EqualMomentsTiltIsZero ==
    ev = "balanceAnimate" =>
        LET mo == calculateMoments(balance)
        IN  /\ mo.moment1 = mo.moment2 => balance.targetAngle = FZero
            /\ Balanced(balance) => FBelowPow2(balance.targetAngle, -40)

\* C1 witness: a frame on the unequal masses 200 g at 30 cm and 300 g at
\* 20 cm, whose computed moments are equal, has set the target to 0 while
\* the beam is still tilted from an earlier setting
C1_Witness ==
    /\ ev = "balanceAnimate"
    /\ Balanced(balance)
    /\ balance.mass1 # balance.mass2
    /\ calculateMoments(balance).moment1 = calculateMoments(balance).moment2
    /\ balance.targetAngle = FZero
    /\ balance.currentAngle # FZero

\* -MAX_TILT_ANGLE <= a <= MAX_TILT_ANGLE
WithinMaxTilt(a) == ~FLess(MAX_TILT_ANGLE, a) /\ ~FLess(a, FNeg(MAX_TILT_ANGLE))

\* C12: in every reachable state targetAngle and currentAngle both lie in
\* [-MAX_TILT_ANGLE, +MAX_TILT_ANGLE].
C12_AnglesWithinMaxTilt ==
    WithinMaxTilt(balance.targetAngle) /\ WithinMaxTilt(balance.currentAngle)

\* C12 witness: the moments call for more than the largest tilt, the target
\* is clamped to MAX_TILT_ANGLE and the beam has come within 2^-50 rad of it
C12_Witness ==
    /\ ev = "balanceAnimate"
    /\ balance.targetAngle = MAX_TILT_ANGLE
    /\ calculateTiltAngleUnclamped(balance) # MAX_TILT_ANGLE
    /\ balance.currentAngle # FZero
    /\ FBelowPow2(FSub(balance.targetAngle, balance.currentAngle), -50)

\* C21: the beam tilts toward the side with the larger moment: after a
\* frame, with moment2 > moment1 the right end of the beam (mass 2) is
\* lower than the left end, with moment1 > moment2 the left end is lower.
C21_BeamTiltsTowardLargerMoment ==
    ev = "balanceAnimate" =>
        \A mo \in {calculateMoments(balance)} :
            /\ FLess(mo.moment1, mo.moment2) =>
                   BeamEndHeightSign(balance, 1) < BeamEndHeightSign(balance, -1)
            /\ FLess(mo.moment2, mo.moment1) =>
                   BeamEndHeightSign(balance, -1) < BeamEndHeightSign(balance, 1)

\* C22: when the animation of Auto-balance ends, the sliders of mass1,
\* dist1 and mass2 being those of the press, the beam is balanced: dist2 is
\* such that the moments are equal within 0.001 N m and the status shows
\* Balanced, for every setting of mass1, dist1 and mass2.
C22_AutoBalanceBalances ==
    [][(/\ ev' = "toBalanceFrame"
        /\ Len(balance.toBalance) = 1
        /\ balance'.toBalance = <<>>
        /\ balance.toBalance[1].targetD2 = ClampedD2(balance))
       => balanceStatus(balance') = "Balanced"]_vars

\* C18: after Reset (mass1, dist1, mass2, dist2) = (200, 30, 300, 20), and
\* the values stay until the next slider or button input, also when an
\* Auto-balance animation was running when Reset was pressed: the
\* animation frame that follows Reset leaves them.
C18_ResetValuesStay ==
    [][/\ ev' = "balanceResetBtn" =>
              <<balance'.mass1, balance'.dist1, balance'.mass2, balance'.dist2>>
                  = <<200, 30, 300, 20>>
       /\ (ev = "balanceResetBtn" /\ ev' = "toBalanceFrame") =>
              <<balance'.mass1, balance'.dist1, balance'.mass2, balance'.dist2>>
                  = <<200, 30, 300, 20>>]_vars

----------------------------------------------------------------------------
(* Claims: magnet demos *)

Dist2(p, m) == (p[1] - m.x) * (p[1] - m.x) + (p[2] - m.z) * (p[2] - m.z)

IsZeroField(f) == f.bx = 0 /\ f.bz = 0 /\ f.strength2 = 0

\* C3: in a shown visualization, at the magnet centre and at every sample
\* point closer than 0.1 to it both calculateFieldAt functions gave bx = 0,
\* bz = 0 and strength = 0, without dividing; at every other sample point
\* the divisor dist^3 they divided by is not 0.
C3_FieldGuardedNearMagnet ==
    fieldViz.shown =>
        \A p \in SamplePoints :
            LET f == fieldViz.samples[p]
            IN  /\ f.test.r3sq # 0
                /\ f.field.r3sq # 0
                /\ Dist2(p, magnet) < GuardDist2 =>
                       IsZeroField(f.test) /\ IsZeroField(f.field)
                /\ Dist2(p, magnet) >= GuardDist2 =>
                       /\ f.test.r3sq = Dist2(p, magnet) * Dist2(p, magnet) * Dist2(p, magnet)
                       /\ f.field.r3sq = f.test.r3sq

\* C3 witness: a visualization shown for a magnet moved off the origin,
\* rotated and at double strength, with a sample at its centre, one off
\* centre within the guard radius, and one outside with a non-zero field
C3_Witness ==
    /\ fieldViz.shown
    /\ magnet.x # 0 /\ magnet.z # 0 /\ magnet.rot = 1 /\ magnet.strength = 2
    /\ \E p \in SamplePoints :
          Dist2(p, magnet) = 0 /\ IsZeroField(fieldViz.samples[p].field)
    /\ \E p \in SamplePoints :
          /\ Dist2(p, magnet) > 0
          /\ Dist2(p, magnet) < GuardDist2
          /\ IsZeroField(fieldViz.samples[p].test)
    /\ \E p \in SamplePoints :
          /\ Dist2(p, magnet) >= GuardDist2
          /\ ~IsZeroField(fieldViz.samples[p].field)

\* C17: the attraction animation never fails and never acts on the wrong
\* object: at each call of its animate() testMaterialObj is non-null and
\* is the object created by the press that started the animation, also
\* when Reset Test, a change of the material select or another press of
\* Test Material occurs while it runs.
C17_AttractionMovesItsObject ==
    \A i \in DOMAIN magnet.test.calls :
        /\ ~magnet.test.calls[i].threw
        /\ magnet.test.calls[i].target = magnet.test.calls[i].obj

\* C23: in the shown field the transform of the field vector back to world
\* coordinates is the inverse of the rotation of the offset to magnet
\* coordinates; so the field of the turned magnet at a point is the field
\* of the unturned magnet at the point's offset in magnet coordinates,
\* turned back by that inverse, and has the same strength.
C23_FieldTurnsWithMagnet ==
    fieldViz.shown =>
        \A p \in SamplePoints :
            \A d \in {ToMagnetCoordinates(p[1] - magnet.x, p[2] - magnet.z, magnet.rot)} :
                /\ ToWorldCoordinates(d[1], d[2], magnet.rot)
                       = <<p[1] - magnet.x, p[2] - magnet.z>>
                /\ \A f0 \in {calculateFieldAt(magnet.x + d[1], magnet.z + d[2],
                                                [magnet EXCEPT !.rot = 0])} :
                       /\ <<fieldViz.samples[p].field.bx, fieldViz.samples[p].field.bz>>
                              = ToMagnetCoordinates(f0.bx, f0.bz, -magnet.rot)
                       /\ fieldViz.samples[p].field.strength2 = f0.strength2

----------------------------------------------------------------------------
(* Claims: electrostatics demo *)

\* no execution of updateObjectA / updateObjectB is pending or yet to start
Settled(s) == s.tasks = <<>> /\ s.timers = 0

ShownGroups(s, o) == {g \in s.scene : s.groups[g].obj = o}

\* C6: once every execution of updateObjectA / updateObjectB has completed,
\* the scene holds exactly one group per object, and that group contains
\* exactly one model and one label, both for the material selected.
C6_SceneIntactAfterUpdates ==
    Settled(electro) =>
        \A o \in {"A", "B"} :
            /\ Cardinality(ShownGroups(electro, o)) = 1
            /\ \A g \in ShownGroups(electro, o) :
                  /\ electro.groups[g].models = <<ObjState(electro, o).key>>
                  /\ electro.groups[g].labels = <<ObjState(electro, o).key>>

\* C7: a Rub or Reverse-rub press while isRubbing is true starts no second
\* animation and changes neither charge.
C7_RubIgnoredWhileRubbing ==
    [][(ev' \in {"rubBtn", "reverseRub"} /\ electro.isRubbing) =>
          /\ electro'.anims = electro.anims
          /\ electro'.A.charge = electro.A.charge
          /\ electro'.B.charge = electro.B.charge]_vars

\* C20: with the material selections left as they are, after any presses of
\* Rub, Reverse rub and Reset the charges add up to zero and each lies in
\* [-50, 50], also when the clamp applies.
C20_ChargesOppositeAndBounded ==
    /\ electro.A.charge + electro.B.charge = 0
    /\ electro.A.charge \in (-ChargeLimit)..ChargeLimit
    /\ electro.B.charge \in (-ChargeLimit)..ChargeLimit

\* C20 witness: the last press of a run is a rub that leaves the charges at
\* the limits, with refreshes of earlier rubs still pending
C20_Witness ==
    /\ ev \in {"rubBtn", "reverseRub"}
    /\ electro.A.charge = -ChargeLimit
    /\ electro.B.charge = ChargeLimit
    /\ electro.inputs = MaxElectroInputs
    /\ electro.isRubbing

\* C24: when a handler has ended with computeForce (a move of the distance
\* slider, or a change of a selection that awaited no load), the arrows in
\* the scene point toward each other exactly when the charges have
\* opposite signs and away from each other exactly when both charges have
\* the same sign, and there is no arrow when both charges are 0.
C24_ArrowsFollowChargeSigns ==
    (ev \in {"objA", "objB", "distRange"} /\ electro.tasks = <<>>) =>
        /\ electro.forceArrow = "attract" =>
               Sign(electro.A.charge) * Sign(electro.B.charge) = -1
        /\ electro.forceArrow = "repel" =>
               Sign(electro.A.charge) * Sign(electro.B.charge) = 1
        /\ (electro.A.charge = 0 /\ electro.B.charge = 0) =>
               electro.forceArrow = "none"

\* C14: whenever no rubbing animation is running and no refresh of the
\* objects is pending, the displayed group of A is at x = -d/2 and that of B
\* at x = +d/2, d being the value of the distance slider.
C14_ObjectsAtHalfDistance ==
    (Settled(electro) /\ electro.anims = <<>>) =>
        /\ \A g \in ShownGroups(electro, "A") :
              electro.groups[g].x = -(electro.dist \div 2)
        /\ \A g \in ShownGroups(electro, "B") :
              electro.groups[g].x = electro.dist \div 2

\* the loads of the model of material k that are under way
PendingLoads(s, k) == Cardinality({i \in DOMAIN s.tasks : s.tasks[i].key = k})

\* C11: loadModel always resolves: a load that settles for a material none
\* of whose paths loads leaves the fallback shape in modelCache, and once a
\* material has its fallback in modelCache the fallback stays there and no
\* step starts a further load for that material.
C11_FallbackCachedNoRetry ==
    [][\A k \in Keys :
          /\ (k \notin Loadable /\ PendingLoads(electro', k) < PendingLoads(electro, k))
                => electro'.modelCache[k] = "fallback"
          /\ electro.modelCache[k] = "fallback"
                => /\ electro'.modelCache[k] = "fallback"
                   /\ PendingLoads(electro', k) <= PendingLoads(electro, k)]_vars

\* C11 witness: Reset was pressed with the glass rod selected for A after its
\* load had failed: the new group of A holds the fallback from modelCache and
\* no load of it is under way
C11_Witness ==
    /\ ev = "electroResetBtn"
    /\ electro.A.key = "glass"
    /\ electro.modelCache["glass"] = "fallback"
    /\ PendingLoads(electro, "glass") = 0
    /\ electro.objectAGroup \in electro.scene
    /\ electro.groups[electro.objectAGroup].models = <<"glass">>

----------------------------------------------------------------------------
(* Claims: wave demo *)

----------------------------------------------------------------------------
(* Claims: hydrogen lab *)

\* C9: a press of a step button whose flag is already true changes nothing:
\* no state flag, no bubble interval, flame loop or heating timer, nor any
\* other part of the lab.
C9_StepTakesEffectOnce ==
    [][\A b \in StepButtons : (ev' = b /\ StepFlag(b, lab)) => lab' = lab]_vars

\* C9 witness: Heat was pressed again after its 2 s timer had fired: the
\* lab is heated, and no heating timer is pending
C9_Witness ==
    /\ ev = "heatBtn"
    /\ lab.heated
    /\ lab.heatTimers = 0
    /\ lab.text.heatStatus = "Heated"

\* C15: in every reachable state of the lab each flag implies the flags of
\* the steps it depends on: hclAdded => zincAdded, gasCollected => hclAdded,
\* popTested => gasCollected, heated => cuoAdded, hydrogenPassed => heated
\* and gasCollected, waterTested => hydrogenPassed.
C15_FlagsFollowStepOrder ==
    /\ lab.hclAdded => lab.zincAdded
    /\ lab.gasCollected => lab.hclAdded
    /\ lab.popTested => lab.gasCollected
    /\ lab.heated => lab.cuoAdded
    /\ lab.hydrogenPassed => (lab.heated /\ lab.gasCollected)
    /\ lab.waterTested => lab.hydrogenPassed

\* C15 witness: the last step was taken in a second run after a reset, with
\* every flag true
C15_Witness ==
    /\ ev = "waterTestBtn"
    /\ \A b \in StepButtons : StepFlag(b, lab)
    /\ lab.bubbleIntervals = 2

\* what the reset handler leaves: the eight flags false, every step button
\* but Add Zinc disabled, the indicators with their first texts and without
\* the classes complete and active
AsAfterReset(s) ==
    /\ \A b \in StepButtons : ~StepFlag(b, s)
    /\ s.disabled = DisabledAfterReset
    /\ s.text = StatusAfterReset
    /\ s.classes = NoClasses

\* C16: after Reset the flags are false, the step buttons other than Add
\* Zinc are disabled and the indicators show their first texts without
\* classes, and this stays so until the next press of a step button,
\* whatever timers were pending when Reset was pressed.
C16_ResetStateStays ==
    [][/\ ev' = "labResetBtn" => AsAfterReset(lab')
       /\ (AsAfterReset(lab) /\ ev' \notin StepButtons) => AsAfterReset(lab')]_vars


\* C25: once the script of the wave demo has run, it has run to its end
\* without an error: state, WaveField and waveField were used only after
\* their declarations, the listeners are in place and animate() has
\* started the loop of frames.
C25_ScriptRunsToCompletion ==
    wave.load.phase = "loaded" =>
        /\ wave.load.error = ""
        /\ {"state", "WaveField", "waveField"} \subseteq wave.load.declared
        /\ "pauseBtn" \in wave.load.listeners
        /\ wave.load.loop

=============================================================================
